---- MODULE Spec2Model ----
(***************************************************************************)
(* run-claude: the reference-counted model lease manager.                  *)
(*                                                                         *)
(* The persisted State (src/run_claude/state.py) is the variable `file`;   *)
(* the commands enter, leave and janitor (src/run_claude/cli.py) read it,  *)
(* mutate it in memory and write it back.  Spec runs the commands one at a *)
(* time, each as one atomic action.  SpecConc runs them in separate OS     *)
(* processes whose reads and writes of the state file interleave.          *)
(* SpecEngine calls increment_models and decrement_models directly.        *)
(* SpecProfiles edits the profile files between commands, SpecIO damages   *)
(* the state file and lets its writes fail, SpecSweep kills a sweep in the *)
(* middle of its batch, and SpecRegistry calls the proxy functions alone.  *)
(* SpecEnter runs enter and leave step by step without clock or sweep,     *)
(* SpecFiles searches the four profile files (src/run_claude/profiles.py), *)
(* SpecHooks registers and executes hooks (src/run_claude/hooks/chain.py)  *)
(* and SpecLoader loads hooks files (src/run_claude/hooks/loader.py).      *)
(***************************************************************************)
EXTENDS Integers, Sequences, FiniteSets, TLC

VARIABLES
    file,           \* the content of state.json, a State record
    now,            \* time.time(), in whole seconds
    available,      \* the profile names load_profile resolves
    proxy_running,  \* is_proxy_running()
    registry,       \* the model names registered with the proxy
    pc,             \* per process: the position inside its command
    local,          \* per process: the command's in-memory State and arguments
    last_cmd,       \* history: the command (or step) that produced this state
    delete_calls,   \* history: the delete_model calls issued by that step
    serial,         \* history: the State the commands yield in commit order
    cmds,           \* history: the number of commands the processes started
    disk,           \* what state.json holds: a saved State (file) or damaged content
    raised,         \* history: the exception that ended the last command, if any
    add_calls,      \* history: the add_model calls of the last ensure_models call
    profile_files,  \* the four profile files: whether each exists, and its entries
    loaded,         \* history: what the last load_profile call returned
    hook_chain,     \* HookChain._hooks: per event, the (name, hook) pairs in order
    executed,       \* history: the calls and the result of the last HookChain.execute
    load_result,    \* history: the last load_hooks_from_config call: its file, its result
    health          \* a health_check call: its arguments, its counters, its result

\* The variables that only the specifications of the state file's faults and
\* of the proxy's registry change.
\* The variables of the hook chain
hooks == <<hook_chain, executed, load_result>>

\* The variables of the profile files and of the hook chain, which only the
\* specifications of the profile search and of the hooks change.
aux == <<profile_files, loaded, hooks, health>>

io == <<disk, raised, add_calls, aux>>

vars == <<file, now, available, proxy_running, registry, pc, local,
          last_cmd, delete_calls, serial, cmds, disk, raised, add_calls, aux>>

-----------------------------------------------------------------------------
(* Bounds and inputs *)

StartTime == 1000
MaxInstants == 6
MaxRef == 3
MaxLen == 2
MaxCmds == 4
MaxHooks == 3
MaxItems == 2
MaxDefs == 2
MaxRetries == 2
MaxRequests == 33

\* state.py:122, lease_delay default
LeaseDelay == 900
\* cli.py:232, janitor rate limit
RateLimit == 60

\* proxy.py, line 65
HEALTH_CHECK_RETRIES == 30

Tokens == {"t1", "t2"}
Dirs == {"d1"}
Models == {"m1", "m2"}
ProfileNames == {"A", "B", "X"}
Procs == {"p1", "p2"}
None == "None"
NoException == "none"

\* The instants at which commands run: groups of three instants half a
\* rate-limit interval apart, the groups a whole lease delay apart, so that
\* both limits are met from below, exactly and from above.
Instant(i) == StartTime + (i % 3) * (RateLimit \div 2) + (i \div 3) * LeaseDelay

TimePoints == {Instant(i) : i \in 0..(MaxInstants - 1)}

\* The model definitions a profile resolves to, in model_list order.
ProfileModelList(name) ==
    CASE name = "A" -> <<"m1", "m2">>
      [] name = "B" -> <<"m2">>
      [] OTHER -> <<>>

-----------------------------------------------------------------------------
(* Python dict helpers *)

EmptyMap == [x \in {} |-> 0]

Get(d, k, default) == IF k \in DOMAIN d THEN d[k] ELSE default

Put(d, k, v) == [x \in (DOMAIN d) \cup {k} |-> IF x = k THEN v ELSE d[x]]

Del(d, k) == [x \in (DOMAIN d) \ {k} |-> d[x]]

Range(s) == {s[i] : i \in DOMAIN s}

-----------------------------------------------------------------------------
(* state.py *)

\* State(): the dataclass defaults
EmptyState ==
    [proxy_pid |-> None,
     active_tokens |-> EmptyMap,
     model_refcounts |-> EmptyMap,
     model_leases |-> EmptyMap,
     last_janitor_run |-> 0]

TokenInfo(profile, last_seen, directory) ==
    [profile |-> profile, last_seen |-> last_seen, directory |-> directory]

\* TokenInfo.to_dict: the directory is written under the key "dir"
TokenInfo_to_dict(info) ==
    [profile |-> info.profile, last_seen |-> info.last_seen, dir |-> info.directory]

\* TokenInfo.from_dict reading the key "directory"
TokenInfo_from_dict_wrong_key(data) ==
    TokenInfo(Get(data, "profile", ""), Get(data, "last_seen", 0),
              Get(data, "directory", ""))

\* TokenInfo.from_dict: data.get with the defaults "", 0.0 and ""
TokenInfo_from_dict(data) ==
    TokenInfo(Get(data, "profile", ""), Get(data, "last_seen", 0), Get(data, "dir", ""))

\* State.to_dict: the object save_state writes with json.dumps.  Its keys are
\* strings and its values numbers, strings and null, which json.loads gives
\* back as they were.
State_to_dict(st) ==
    [proxy_pid |-> st.proxy_pid,
     active_tokens |-> [k \in DOMAIN st.active_tokens |->
                           TokenInfo_to_dict(st.active_tokens[k])],
     model_refcounts |-> st.model_refcounts,
     model_leases |-> st.model_leases,
     last_janitor_run |-> st.last_janitor_run]

\* State.from_dict: data.get with the defaults None, {}, {}, {} and 0.0
State_from_dict(data) ==
    LET tokens == Get(data, "active_tokens", EmptyMap) IN
    [proxy_pid |-> Get(data, "proxy_pid", None),
     active_tokens |-> [k \in DOMAIN tokens |-> TokenInfo_from_dict(tokens[k])],
     model_refcounts |-> Get(data, "model_refcounts", EmptyMap),
     model_leases |-> Get(data, "model_leases", EmptyMap),
     last_janitor_run |-> Get(data, "last_janitor_run", 0)]

\* load_state: the file's content (a missing file reads as State())
load_state == file

\* increment_model without the lease removal of lines 118-119
increment_model_keeps_lease(st, model) ==
    [st EXCEPT !.model_refcounts = Put(@, model, Get(@, model, 0) + 1)]

\* One iteration of increment_models' loop.
increment_model(st, model) ==
    [st EXCEPT
        !.model_refcounts = Put(@, model, Get(@, model, 0) + 1),
        !.model_leases = IF model \in DOMAIN @ THEN Del(@, model) ELSE @]

RECURSIVE increment_models(_, _)
increment_models(st, models) ==
    IF models = <<>> THEN st
    ELSE increment_models(increment_model(st, Head(models)), Tail(models))

\* decrement_model with the lease set on every decrement, not only at zero
decrement_model_always_leases(st, model, delete_after) ==
    LET count0 == Get(st.model_refcounts, model, 0)
        count == IF count0 > 0 THEN count0 - 1 ELSE count0
    IN [st EXCEPT
          !.model_leases = Put(@, model, delete_after),
          !.model_refcounts = IF count = 0 THEN (IF model \in DOMAIN @ THEN Del(@, model) ELSE @)
                              ELSE Put(@, model, count)]

\* decrement_model without the removal of the zero entry of lines 136-137
decrement_model_keeps_zero(st, model, delete_after) ==
    LET count0 == Get(st.model_refcounts, model, 0)
        count == IF count0 > 0 THEN count0 - 1 ELSE count0
        rc1 == IF count0 > 0 THEN Put(st.model_refcounts, model, count)
               ELSE st.model_refcounts
    IN IF count = 0
       THEN [st EXCEPT !.model_leases = Put(@, model, delete_after),
                       !.model_refcounts = rc1]
       ELSE [st EXCEPT !.model_refcounts = rc1]

\* decrement_model that leaves the lease of an already leased model as it is
decrement_model_keeps_lease(st, model, delete_after) ==
    LET count0 == Get(st.model_refcounts, model, 0)
        count == IF count0 > 0 THEN count0 - 1 ELSE count0
        rc1 == IF count0 > 0 THEN Put(st.model_refcounts, model, count)
               ELSE st.model_refcounts
    IN IF count = 0
       THEN [st EXCEPT
               !.model_leases = IF model \in DOMAIN @ THEN @ ELSE Put(@, model, delete_after),
               !.model_refcounts = IF model \in DOMAIN rc1 THEN Del(rc1, model) ELSE rc1]
       ELSE [st EXCEPT !.model_refcounts = rc1]

\* One iteration of decrement_models' loop; delete_after is computed once,
\* before the loop.
decrement_model(st, model, delete_after) ==
    LET count0 == Get(st.model_refcounts, model, 0)
        count == IF count0 > 0 THEN count0 - 1 ELSE count0
        rc1 == IF count0 > 0 THEN Put(st.model_refcounts, model, count)
               ELSE st.model_refcounts
    IN IF count = 0
       THEN [st EXCEPT
               !.model_leases = Put(@, model, delete_after),
               !.model_refcounts = IF model \in DOMAIN rc1 THEN Del(rc1, model) ELSE rc1]
       ELSE [st EXCEPT !.model_refcounts = rc1]

\* the loop with delete_after computed again in every iteration, the clock
\* having moved on
RECURSIVE decrement_loop_restamps(_, _, _)
decrement_loop_restamps(st, models, delete_after) ==
    IF models = <<>> THEN st
    ELSE decrement_loop_restamps(decrement_model(st, Head(models), delete_after),
                                 Tail(models), delete_after + 1)

RECURSIVE decrement_loop(_, _, _)
decrement_loop(st, models, delete_after) ==
    IF models = <<>> THEN st
    ELSE decrement_loop(decrement_model(st, Head(models), delete_after),
                        Tail(models), delete_after)

\* decrement_models with the lease set at the time of the call
decrement_models_without_delay(st, models, t) == decrement_loop(st, models, t)

decrement_models(st, models, t) == decrement_loop(st, models, t + LeaseDelay)

\* lease_expired with a strict comparison
lease_expired_strict(st, model, t) ==
    /\ t > st.model_leases[model]
    /\ Get(st.model_refcounts, model, 0) = 0

\* The test of get_expired_leases' loop for one lease.
lease_expired(st, model, t) ==
    /\ t >= st.model_leases[model]
    /\ Get(st.model_refcounts, model, 0) = 0

\* get_expired_leases: the models of the returned list (the list is in the
\* dict's order; the callers depend on its members only).
get_expired_leases(st, t) ==
    {model \in DOMAIN st.model_leases : lease_expired(st, model, t)}

clear_lease(st, model) ==
    [st EXCEPT !.model_leases = IF model \in DOMAIN @ THEN Del(@, model) ELSE @]

RECURSIVE clear_leases(_, _)
clear_leases(st, models) ==
    IF models = {} THEN st
    ELSE LET m == CHOOSE x \in models : TRUE
         IN clear_leases(clear_lease(st, m), models \ {m})

\* add_token that keeps the entry of a token that is already active
add_token_keeps_first(st, token, profile, directory, t) ==
    IF token \in DOMAIN st.active_tokens THEN st
    ELSE [st EXCEPT !.active_tokens = Put(@, token, TokenInfo(profile, t, directory))]

add_token(st, token, profile, directory, t) ==
    [st EXCEPT !.active_tokens = Put(@, token, TokenInfo(profile, t, directory))]

\* remove_token that looks the token up without removing it
remove_token_keeps(st, token) == st

remove_token(st, token) ==
    [st EXCEPT !.active_tokens = Del(@, token)]

-----------------------------------------------------------------------------
(* profiles.py *)

\* load_profile that returns the entry of a name whether or not an enabled
\* entry exists
load_profile_ignores_disabled(name) ==
    [found |-> TRUE, name |-> name, model_list |-> ProfileModelList(name)]

\* load_profile: the Profile, or None (found = FALSE) when no file holds an
\* enabled entry for the name.
load_profile(name) ==
    IF name \in available
    THEN [found |-> TRUE, name |-> name, model_list |-> ProfileModelList(name)]
    ELSE [found |-> FALSE, name |-> None, model_list |-> <<>>]

get_model_names(profile) == profile.model_list

\* ALWAYS_INCLUDE_MODELS
ALWAYS_INCLUDE_MODELS == <<"ultra", "fast", "cheap">>

\* ProfileMeta: the three tier references ("" when unset) and the extended list
ProfileMeta(opus_model, sonnet_model, haiku_model, extended) ==
    [opus_model |-> opus_model, sonnet_model |-> sonnet_model,
     haiku_model |-> haiku_model, extended |-> extended]

\* The profiles resolved in the model: a tier left unset, two tiers naming
\* the same model, a tier naming an always-included model, and an extended
\* list repeating a tier's model and an always-included one
ProfileMetas ==
    {ProfileMeta(opus, sonnet, haiku, extended) :
        opus \in {"", "m1"}, sonnet \in {"m1", "m2"}, haiku \in {"m2", "ultra"},
        extended \in {<<>>, <<"m1", "fast">>}}

\* load_model_definitions: the names models.yaml defines
ModelDefinitions ==
    {{"m1", "m2", "ultra", "fast", "cheap"}, {"m1", "fast", "cheap"}, {"m1", "m2"}}

\* resolve_profile_models, lines 463-474: the names referenced, in order
referenced_names(meta) ==
    <<meta.opus_model, meta.sonnet_model, meta.haiku_model>> \o meta.extended
        \o ALWAYS_INCLUDE_MODELS

\* the loop without the test `name not in seen`
RECURSIVE resolve_loop_with_repeats(_, _, _)
resolve_loop_with_repeats(model_names, seen, models) ==
    IF model_names = <<>>
    THEN <<>>
    ELSE LET name == Head(model_names) IN
         IF name # ""
         THEN (IF name \in models THEN <<name>> ELSE <<>>)
                  \o resolve_loop_with_repeats(Tail(model_names), seen, models)
         ELSE resolve_loop_with_repeats(Tail(model_names), seen, models)

\* resolve_profile_models, lines 476-487: the loop.  The definitions are keyed
\* by model_name (line 393), so a resolved definition's model_name is the
\* name it was found under.
RECURSIVE resolve_loop(_, _, _)
resolve_loop(model_names, seen, models) ==
    IF model_names = <<>>
    THEN <<>>
    ELSE LET name == Head(model_names) IN
         IF name # "" /\ name \notin seen
         THEN (IF name \in models THEN <<name>> ELSE <<>>)
                  \o resolve_loop(Tail(model_names), seen \cup {name}, models)
         ELSE resolve_loop(Tail(model_names), seen, models)

\* resolve_profile_models followed by Profile.get_model_names
resolve_profile_models(meta, models) == resolve_loop(referenced_names(meta), {}, models)

\* _get_profiles_files: the four paths, highest priority first
SearchOrder == <<"user_override", "user", "builtin_override", "builtin">>

\* An entry of a profile file, by what load_profile asks of it: whether the
\* value is truthy (a non-empty mapping), whether it has the key "model", and
\* that key's value ("null" and "false" are YAML's null and false).
Entry(truthy, has_model, model) ==
    [truthy |-> truthy, has_model |-> has_model, model |-> model]

EmptyEntry == Entry(FALSE, FALSE, "null")

PlainEntry == Entry(TRUE, FALSE, "null")

Entries ==
    {EmptyEntry, PlainEntry, Entry(TRUE, TRUE, "null"), Entry(TRUE, TRUE, "false"),
     Entry(TRUE, TRUE, "m1")}

\* The names the files of the model hold entries for, and the entries of each
FileNames == {"A", "B"}

EntriesOf(name) == IF name = "A" THEN Entries ELSE {PlainEntry}

\* _load_profiles_file: the mapping of a file; a file that cannot be read or
\* parsed, or is empty, is the empty mapping
FileData ==
    {d \in UNION {[names -> Entries] : names \in SUBSET FileNames} :
        \A name \in DOMAIN d : d[name] \in EntriesOf(name)}

MissingFile == [exists |-> FALSE, data |-> EmptyMap]

FileStates == {MissingFile} \cup {[exists |-> TRUE, data |-> d] : d \in FileData}

\* _get_profiles_files with the built-in file tried first
get_profiles_files_builtin_first ==
    SelectSeq(<<"builtin", "builtin_override", "user", "user_override">>,
              LAMBDA f : profile_files[f].exists)

\* _get_profiles_files: the files that exist, in priority order
get_profiles_files == SelectSeq(SearchOrder, LAMBDA f : profile_files[f].exists)

\* _is_profile_disabled
is_profile_disabled(profile_data) ==
    \/ ~profile_data.truthy
    \/ profile_data.has_model /\ profile_data.model \in {"null", "false"}

NotLoaded == [found |-> FALSE, source_path |-> None, entry |-> EmptyEntry]

\* load_profile, lines 568-587: the loop over the files.  The Profile returned
\* is built from the entry and carries the file as source_path.
RECURSIVE load_profile_loop(_, _)
load_profile_loop(files, name) ==
    IF files = <<>>
    THEN NotLoaded
    ELSE LET profiles_data == profile_files[Head(files)].data IN
         IF name \in DOMAIN profiles_data /\ ~is_profile_disabled(profiles_data[name])
         THEN [found |-> TRUE, source_path |-> Head(files), entry |-> profiles_data[name]]
         ELSE load_profile_loop(Tail(files), name)

load_profile_search(name) == load_profile_loop(get_profiles_files, name)

-----------------------------------------------------------------------------
(* proxy.py: health_check, one request at a time *)

\* What a GET /health can come to: a 200 answer, another answer, an exception
Answers == {"200", "503", "exception"}

\* A health_check call: pc is "idle" before any call, "loop" at the head of
\* `while True`, "done" after a return; requests counts the GETs sent.
HealthCheck(pc_, wait_for_recovery, max_retries, retry_count, requests, healthy, result) ==
    [pc |-> pc_, wait_for_recovery |-> wait_for_recovery, max_retries |-> max_retries,
     retry_count |-> retry_count, requests |-> requests, healthy |-> healthy,
     result |-> result]

NoHealthCheck == HealthCheck("idle", FALSE, 0, 0, 0, FALSE, FALSE)

\* health_check, lines 367-369: the call, up to the head of the loop
health_check_call(wait_for_recovery, max_retries) ==
    HealthCheck("loop", wait_for_recovery, max_retries, 0, 0, FALSE, FALSE)

\* the retry test without the return at the maximum
health_check_request_unbounded(h, answer) ==
    LET sent == [h EXCEPT !.requests = @ + 1] IN
    IF answer = "200"
    THEN [sent EXCEPT !.pc = "done", !.healthy = TRUE, !.result = TRUE]
    ELSE IF ~h.wait_for_recovery
    THEN [sent EXCEPT !.pc = "done", !.result = FALSE]
    ELSE [sent EXCEPT !.retry_count = @ + 1]

\* health_check, lines 371-412: one pass of the loop.  An answer that is not
\* 200 and an exception take the same three steps.
health_check_request(h, answer) ==
    LET sent == [h EXCEPT !.requests = @ + 1] IN
    IF answer = "200"
    THEN [sent EXCEPT !.pc = "done", !.healthy = TRUE, !.result = TRUE]
    ELSE IF ~h.wait_for_recovery
    THEN [sent EXCEPT !.pc = "done", !.result = FALSE]
    ELSE IF h.max_retries > 0 /\ h.retry_count >= h.max_retries
    THEN [sent EXCEPT !.pc = "done", !.result = FALSE]
    ELSE [sent EXCEPT !.retry_count = @ + 1]

-----------------------------------------------------------------------------
(* hooks/__init__.py, hooks/chain.py *)

\* HookEvent: the values of the enumeration
HookEvent == {"pre_request", "post_response", "pre_tool_call", "post_tool_call"}

\* The events the hooks of the model are registered for and executed with
UsedEvents == {"pre_request", "post_response"}

\* metadata without the key "hook_config" (hook names count from 1)
NoConfig == 0

\* HookContext, by the fields the chain and the hooks of the model touch:
\* metadata holds the key "hook_config" (NoConfig while absent) and the names
\* of the hooks that recorded themselves under "reached".
HookContext(event, hook_config, reached, stop_chain) ==
    [event |-> event, metadata |-> [hook_config |-> hook_config, reached |-> reached],
     stop_chain |-> stop_chain]

\* The hook functions of the model: what the function does (return the
\* context untouched as log_request does, record itself in the metadata and
\* return, set stop_chain and return, or raise), and whether the loader's
\* _wrap_with_config wraps it.
HookBodies == {"pass", "mark", "stop", "raise"}

HookFn == [body : HookBodies, configured : BOOLEAN]

\* A function that changes the context in place and returns nothing, which
\* _load_hook_function's async_wrapper hands on as None
AnyHookBodies == HookBodies \cup {"none"}

AnyHookFn == [body : AnyHookBodies, configured : BOOLEAN]

\* None where a HookContext is expected
NoneContext ==
    [event |-> None, metadata |-> [hook_config |-> NoConfig, reached |-> {}],
     stop_chain |-> FALSE]

\* _wrap_with_config, line 102: ctx.metadata["hook_config"] = _cfg, in place.
\* The configuration is identified by the hook's name.
configured_wrapper(fn, name, ctx) ==
    IF fn.configured
    THEN [ctx EXCEPT !.metadata.hook_config = name]
    ELSE ctx

\* await hook(ctx): the context object after the call and whether the call
\* raised.  The hooks change the object they are given and return it, so what
\* a hook did before it raised stays in the object.
call_hook(fn, name, ctx) ==
    LET c == configured_wrapper(fn, name, ctx) IN
    CASE fn.body = "pass" -> [ctx |-> c, raised |-> FALSE]
      [] fn.body = "mark" ->
            [ctx |-> [c EXCEPT !.metadata.reached = @ \cup {name}], raised |-> FALSE]
      [] fn.body = "stop" -> [ctx |-> [c EXCEPT !.stop_chain = TRUE], raised |-> FALSE]
      [] fn.body = "raise" -> [ctx |-> c, raised |-> TRUE]
      [] fn.body = "none" -> [ctx |-> NoneContext, raised |-> FALSE]

\* HookChain.register
register(chain, event, name, hook) ==
    [chain EXCEPT ![event] = Append(@, [name |-> name, hook |-> hook])]

\* HookChain.execute running the hooks of every event
hooks_of_any_event(chain, event) ==
    chain["pre_request"] \o chain["post_response"] \o chain["pre_tool_call"]
        \o chain["post_tool_call"]

\* self._hooks[ctx.event]
hooks_of(chain, event) == chain[event]

\* HookChain.execute without the stop_chain test
RECURSIVE execute_loop_never_stops(_, _, _)
execute_loop_never_stops(hook_list, ctx, calls) ==
    IF hook_list = <<>>
    THEN [ctx |-> ctx, calls |-> calls, raised |-> FALSE]
    ELSE LET h == Head(hook_list)
             out == call_hook(h.hook, h.name, ctx)
         IN execute_loop_never_stops(Tail(hook_list), out.ctx,
                Append(calls, [name |-> h.name, received |-> ctx,
                               raised |-> out.raised, result |-> out.ctx]))

\* HookChain.execute, lines 32-40: the loop.  calls records, for each hook
\* called, the context it received, whether it raised, and the context after.
\* Line 33 reads ctx.stop_chain outside the try: with ctx None it raises
\* AttributeError, which leaves execute.
RECURSIVE execute_loop(_, _, _)
execute_loop(hook_list, ctx, calls) ==
    IF hook_list = <<>>
    THEN [ctx |-> ctx, calls |-> calls, raised |-> FALSE]
    ELSE IF ctx = NoneContext
    THEN [ctx |-> ctx, calls |-> calls, raised |-> TRUE]
    ELSE IF ctx.stop_chain
    THEN [ctx |-> ctx, calls |-> calls, raised |-> FALSE]
    ELSE LET h == Head(hook_list)
             out == call_hook(h.hook, h.name, ctx)
         IN execute_loop(Tail(hook_list), out.ctx,
                Append(calls, [name |-> h.name, received |-> ctx,
                               raised |-> out.raised, result |-> out.ctx]))

\* HookChain.execute
execute(chain, ctx) ==
    LET out == execute_loop(hooks_of(chain, ctx.event), ctx, <<>>) IN
    [given |-> ctx, calls |-> out.calls, returned |-> out.ctx, raised |-> out.raised]

\* HookChain(): no hook for any event
EmptyChain == [e \in HookEvent |-> <<>>]

\* The number of hooks registered on a chain
ChainSize(chain) ==
    Len(chain["pre_request"]) + Len(chain["post_response"])
        + Len(chain["pre_tool_call"]) + Len(chain["post_tool_call"])

NotExecuted ==
    [given |-> HookContext("pre_request", NoConfig, {}, FALSE), calls |-> <<>>,
     returned |-> HookContext("pre_request", NoConfig, {}, FALSE), raised |-> FALSE]

-----------------------------------------------------------------------------
(* hooks/loader.py *)

\* An entry of a hook list, by what the loader asks of it: its "enabled" flag,
\* whether its module and function can be imported, and whether it has a
\* non-empty "config" mapping.
HookDef(enabled, importable, has_config) ==
    [enabled |-> enabled, importable |-> importable, has_config |-> has_config]

\* The entries of the model's files: one that loads, with a config mapping,
\* one that is disabled and one whose module cannot be imported
HookDefs ==
    {HookDef(TRUE, TRUE, TRUE), HookDef(FALSE, TRUE, FALSE), HookDef(TRUE, FALSE, FALSE)}

\* The keys under "hooks": two events and a name that is no event
EventNames == UsedEvents \cup {"made_up_event"}

\* The value under an event name: a list of entries, or something else
HookLists ==
    {[is_list |-> FALSE, hook_list |-> <<>>]} \cup
    {[is_list |-> TRUE, hook_list |-> l] :
        l \in UNION {[1..n -> HookDefs] : n \in 0..MaxLen}}

\* The items of the "hooks" mapping, in the order of the file
ItemLists ==
    {items \in UNION {[1..n -> [event_name : EventNames, value : HookLists]] :
                         n \in 0..MaxItems} :
        \A i, j \in DOMAIN items : items[i].event_name = items[j].event_name => i = j}

RECURSIVE DefCount(_)
DefCount(items) ==
    IF items = <<>> THEN 0 ELSE Len(Head(items).value.hook_list) + DefCount(Tail(items))

\* A hooks file: one that yaml.safe_load rejects, or a mapping with "hooks"
Configs ==
    {[parsed |-> FALSE, hooks |-> <<>>]} \cup
    {[parsed |-> TRUE, hooks |-> items] :
        items \in {it \in ItemLists : DefCount(it) <= MaxDefs}}

\* _load_hook_function and _wrap_with_config: the hook that is registered.
\* The functions the files of the model name return the context untouched.
loaded_hook(hook_def) == [body |-> "pass", configured |-> hook_def.has_config]

\* The loop over an event's entries with the test of "enabled" reversed
RECURSIVE load_hook_list_disabled_too(_, _, _, _)
load_hook_list_disabled_too(chain, event, hook_list, count) ==
    IF hook_list = <<>>
    THEN [chain |-> chain, count |-> count]
    ELSE LET hook_def == Head(hook_list) IN
         IF ~hook_def.importable
         THEN load_hook_list_disabled_too(chain, event, Tail(hook_list), count)
         ELSE load_hook_list_disabled_too(
                  register(chain, event, ChainSize(chain) + 1, loaded_hook(hook_def)),
                  event, Tail(hook_list), count + 1)

\* load_hooks_from_config, lines 58-75: the loop over an event's entries.
\* Each hook is registered under a name of its own.
RECURSIVE load_hook_list(_, _, _, _)
load_hook_list(chain, event, hook_list, count) ==
    IF hook_list = <<>>
    THEN [chain |-> chain, count |-> count]
    ELSE LET hook_def == Head(hook_list) IN
         IF ~hook_def.enabled \/ ~hook_def.importable
         THEN load_hook_list(chain, event, Tail(hook_list), count)
         ELSE load_hook_list(
                  register(chain, event, ChainSize(chain) + 1, loaded_hook(hook_def)),
                  event, Tail(hook_list), count + 1)

\* load_hooks_from_config, lines 47-56: the loop over the events
RECURSIVE load_items(_, _, _)
load_items(chain, items, count) ==
    IF items = <<>>
    THEN [chain |-> chain, count |-> count]
    ELSE LET item == Head(items) IN
         IF item.event_name \notin HookEvent \/ ~item.value.is_list
         THEN load_items(chain, Tail(items), count)
         ELSE LET out == load_hook_list(chain, item.event_name,
                                        item.value.hook_list, count)
              IN load_items(out.chain, Tail(items), out.count)

\* load_hooks_from_config: the chain after the call and the count returned
load_hooks_from_config(chain, config) ==
    IF ~config.parsed
    THEN [chain |-> chain, count |-> 0]
    ELSE load_items(chain, config.hooks, 0)

NotLoadedHooks == [config |-> [parsed |-> FALSE, hooks |-> <<>>], count |-> 0]

-----------------------------------------------------------------------------
(* proxy.py *)

\* ensure_models adding no model
ensure_models_adding_nothing(model_list, existing, ok_adds) == registry

\* ensure_models: existing is what get_model_ids returned (nothing when the
\* listing failed), ok_adds the models whose add_model call succeeds.
ensure_models(model_list, existing, ok_adds) ==
    registry \cup {m \in Range(model_list) : m \notin existing /\ m \in ok_adds}

\* cmd_enter's proxy block: the (is_proxy_running, registry) it can leave.
EnsureProxy(model_list) ==
    IF ~proxy_running
    THEN \* start_proxy with the config generated from the profile's models
         {[running |-> TRUE, registry |-> registry \cup Range(model_list)],
          [running |-> FALSE, registry |-> registry]}
    ELSE IF model_list # <<>>
    THEN {[running |-> TRUE, registry |-> ensure_models(model_list, existing, ok_adds)] :
             existing \in {registry, {}}, ok_adds \in SUBSET Range(model_list)}
    ELSE {[running |-> TRUE, registry |-> registry]}

\* The outcomes of delete_model over a batch: the models whose call returns
\* True.  Without a running proxy every request fails.
DeleteOutcomes(models) == IF proxy_running THEN SUBSET models ELSE {{}}

\* The record of one delete_model call: the model, the call's result and the
\* refcount the state file holds for the model when the call is made.
DeleteCall(model, ok) ==
    [model |-> model, ok |-> ok, file_refcount |-> Get(file.model_refcounts, model, 0)]

-----------------------------------------------------------------------------
(* cli.py: what each command computes from the State it loaded *)

\* cmd_enter also stamping last_janitor_run
enter_update_marking_run(st, token, profile_name, directory, model_names, t) ==
    [increment_models(add_token(st, token, profile_name, directory, t), model_names)
        EXCEPT !.last_janitor_run = t]

\* cmd_enter, lines 190-194, between load_state and save_state
enter_update(st, token, profile_name, directory, model_names, t) ==
    increment_models(add_token(st, token, profile_name, directory, t), model_names)

\* cmd_leave decrementing the models of the recorded profile name even when
\* load_profile returns None
leave_update_decrements_unresolved(st, token, t) ==
    remove_token(decrement_models(st, ProfileModelList(st.active_tokens[token].profile), t),
                 token)

\* cmd_leave, lines 213-218, for a token that is present
leave_update(st, token, t) ==
    LET profile == load_profile(st.active_tokens[token].profile)
        st1 == IF profile.found
               THEN decrement_models(st, get_model_names(profile), t)
               ELSE st
    IN remove_token(st1, token)

\* the rate limit with the comparison reversed
rate_limited_reversed(st, force, t) == ~force /\ t - st.last_janitor_run > RateLimit

\* cmd_janitor, lines 230-233: the rate limit
rate_limited(st, force, t) == ~force /\ t - st.last_janitor_run < RateLimit

\* the sweep without the assignment of line 235
mark_run_skipped(st, t) == st

\* cmd_janitor, line 235
mark_run(st, t) == [st EXCEPT !.last_janitor_run = t]

\* the sweep clearing the lease of every expired model, whatever delete_model
\* returned
sweep_update_ignores_result(st, oks) ==
    clear_leases(st, get_expired_leases(st, st.last_janitor_run))

\* the sweep clearing no lease
sweep_update_keeps_leases(st, oks) == st

\* cmd_janitor, lines 246-249: the State after the loop, oks being the
\* models whose delete_model call returned True
sweep_update(st, oks) == clear_leases(st, oks)

-----------------------------------------------------------------------------
(* History records *)

Cmd(op, token, profile, force, rc, wrote, limited) ==
    [op |-> op, token |-> token, profile |-> profile, force |-> force,
     rc |-> rc, wrote |-> wrote, limited |-> limited, directory |-> None,
     models |-> <<>>, defined |-> {}]

NoCmd == Cmd("none", None, None, FALSE, 0, FALSE, FALSE)

IdleLocal ==
    [op |-> "none", token |-> None, profile |-> None, directory |-> None,
     model_names |-> <<>>, force |-> FALSE, t |-> 0, st |-> EmptyState,
     pending |-> {}, oks |-> {}]

AllIdle == \A p \in Procs : pc[p] = "idle"

\* The refcount leak of a repeated enter is unbounded: the model stops at MaxRef.
BelowMaxRef(model_names) ==
    \A m \in Range(model_names) : Get(file.model_refcounts, m, 0) < MaxRef

-----------------------------------------------------------------------------
(* Commands run one at a time: each handler is one action *)

Init ==
    /\ file = EmptyState
    /\ now = StartTime
    /\ available = {"A", "B"}
    /\ proxy_running = FALSE
    /\ registry = {}
    /\ pc = [p \in Procs |-> "idle"]
    /\ local = [p \in Procs |-> IdleLocal]
    /\ last_cmd = NoCmd
    /\ delete_calls = {}
    /\ serial = EmptyState
    /\ profile_files = [f \in Range(SearchOrder) |->
                          IF f = "builtin"
                          THEN [exists |-> TRUE, data |-> [n \in FileNames |-> PlainEntry]]
                          ELSE MissingFile]
    /\ loaded = NotLoaded
    /\ hook_chain = EmptyChain
    /\ executed = NotExecuted
    /\ load_result = NotLoadedHooks
    /\ health = NoHealthCheck
    /\ cmds = 0
    /\ disk = "saved"
    /\ raised = NoException
    /\ add_calls = {}

\* Time passes between commands.
Tick ==
    /\ \E t \in TimePoints : t > now /\ now' = t
    /\ last_cmd' = Cmd("tick", None, None, FALSE, 0, FALSE, FALSE)
    /\ delete_calls' = {}
    /\ UNCHANGED <<io, cmds, file, available, proxy_running, registry, pc, local, serial>>

\* cmd_enter with an unresolvable profile: exit code 1
EnterNotFound(token, profile_name) ==
    /\ ~load_profile(profile_name).found
    /\ last_cmd' = Cmd("enter", token, profile_name, FALSE, 1, FALSE, FALSE)
    /\ delete_calls' = {}
    /\ UNCHANGED <<io, cmds, file, now, available, proxy_running, registry, pc, local, serial>>

\* cmd_enter returning after "Failed to start proxy", before the state update
EnterOkUnlessProxyFails(token, profile_name, directory) ==
    LET profile == load_profile(profile_name) IN
    /\ profile.found
    /\ BelowMaxRef(get_model_names(profile))
    /\ \E out \in EnsureProxy(profile.model_list) :
          /\ proxy_running' = out.running
          /\ registry' = out.registry
          /\ file' = IF out.running
                     THEN enter_update(load_state, token, profile_name, directory,
                                       get_model_names(profile), now)
                     ELSE file
    /\ serial' = file'
    /\ last_cmd' = [Cmd("enter", token, profile_name, FALSE, 0, TRUE, FALSE)
                     EXCEPT !.directory = directory]
    /\ delete_calls' = {}
    /\ UNCHANGED <<io, cmds, now, available, pc, local>>

\* cmd_enter with a resolvable profile
EnterOk(token, profile_name, directory) ==
    LET profile == load_profile(profile_name) IN
    /\ profile.found
    /\ BelowMaxRef(get_model_names(profile))
    /\ \E out \in EnsureProxy(profile.model_list) :
          /\ proxy_running' = out.running
          /\ registry' = out.registry
    /\ file' = enter_update(load_state, token, profile_name, directory,
                            get_model_names(profile), now)
    /\ serial' = file'
    /\ last_cmd' = [Cmd("enter", token, profile_name, FALSE, 0, TRUE, FALSE)
                     EXCEPT !.directory = directory]
    /\ delete_calls' = {}
    /\ UNCHANGED <<io, cmds, now, available, pc, local>>

cmd_enter ==
    \E token \in Tokens, profile_name \in ProfileNames, directory \in Dirs :
        \/ EnterNotFound(token, profile_name)
        \/ EnterOk(token, profile_name, directory)

\* cmd_leave
cmd_leave ==
    \E token \in Tokens :
        LET st == load_state IN
        /\ IF token \notin DOMAIN st.active_tokens
           THEN /\ last_cmd' = Cmd("leave", token, None, FALSE, 0, FALSE, FALSE)
                /\ UNCHANGED <<cmds, file, serial>>
           ELSE /\ file' = leave_update(st, token, now)
                /\ serial' = file'
                /\ last_cmd' = Cmd("leave", token, st.active_tokens[token].profile,
                                   FALSE, 0, TRUE, FALSE)
        /\ delete_calls' = {}
        /\ UNCHANGED <<io, cmds, now, available, proxy_running, registry, pc, local>>

\* cmd_janitor
cmd_janitor ==
    \E force \in BOOLEAN :
        LET st == load_state
            st1 == mark_run(st, now)
            expired == get_expired_leases(st1, now)
        IN
        IF rate_limited(st, force, now)
        THEN /\ last_cmd' = Cmd("janitor", None, None, force, 0, FALSE, TRUE)
             /\ delete_calls' = {}
             /\ UNCHANGED <<io, cmds, file, now, available, proxy_running, registry, pc,
                            local, serial>>
        ELSE \E oks \in DeleteOutcomes(expired) :
             /\ delete_calls' = {DeleteCall(m, m \in oks) : m \in expired}
             /\ registry' = registry \ oks
             /\ file' = sweep_update(st1, oks)
             /\ serial' = file'
             /\ last_cmd' = Cmd("janitor", None, None, force, 0, TRUE, FALSE)
             /\ UNCHANGED <<io, cmds, now, available, proxy_running, pc, local>>

Next == Tick \/ cmd_enter \/ cmd_leave \/ cmd_janitor

Spec == Init /\ [][Next]_vars

-----------------------------------------------------------------------------
(* The reference-count engine alone: increment_models and decrement_models  *)
(* called on arbitrary lists of models, repeated names included.            *)

ModelLists == UNION {[1..n -> Models] : n \in 0..MaxLen}

WithinMaxRef(st) == \A m \in DOMAIN st.model_refcounts : st.model_refcounts[m] <= MaxRef

EngineIncrement ==
    \E models \in ModelLists :
        /\ WithinMaxRef(increment_models(file, models))
        /\ file' = increment_models(file, models)
        /\ serial' = file'
        /\ last_cmd' = [Cmd("increment", None, None, FALSE, 0, FALSE, FALSE)
                         EXCEPT !.models = models]
        /\ delete_calls' = {}
        /\ UNCHANGED <<io, cmds, now, available, proxy_running, registry, pc, local>>

EngineDecrement ==
    \E models \in ModelLists :
        /\ file' = decrement_models(file, models, now)
        /\ serial' = file'
        /\ last_cmd' = [Cmd("decrement", None, None, FALSE, 0, FALSE, FALSE)
                         EXCEPT !.models = models]
        /\ delete_calls' = {}
        /\ UNCHANGED <<io, cmds, now, available, proxy_running, registry, pc, local>>

NextEngine == Tick \/ EngineIncrement \/ EngineDecrement

SpecEngine == Init /\ [][NextEngine]_vars

\* increment_models on the names a profile resolves to, as cmd_enter calls it
\* (lines 165 and 193)
ResolveIncrement ==
    \E meta \in ProfileMetas, models \in ModelDefinitions :
        LET model_names == resolve_profile_models(meta, models) IN
        /\ BelowMaxRef(model_names)
        /\ file' = increment_models(file, model_names)
        /\ serial' = file'
        /\ last_cmd' = [Cmd("resolve_increment", None, None, FALSE, 0, FALSE, FALSE)
                         EXCEPT !.models = referenced_names(meta), !.defined = models]
        /\ delete_calls' = {}
        /\ UNCHANGED <<io, cmds, now, available, proxy_running, registry, pc, local>>

NextResolve == ResolveIncrement \/ EngineDecrement

SpecResolve == Init /\ [][NextResolve]_vars

-----------------------------------------------------------------------------
(* Commands run by concurrent processes.  The handlers take no lock: a      *)
(* process reads the state file in load_state and writes it in save_state,  *)
(* and the steps of other processes fall in between.                        *)

Goto(p, label) == pc' = [pc EXCEPT ![p] = label]

SetLocal(p, value) == local' = [local EXCEPT ![p] = value]

\* cmd_enter, lines 165-188: the profile is loaded and the proxy ensured
EnterStart(p, token, profile_name, directory) ==
    LET profile == load_profile(profile_name) IN
    /\ pc[p] = "idle"
    /\ cmds < MaxCmds
    /\ cmds' = cmds + 1
    /\ delete_calls' = {}
    /\ IF ~profile.found
       THEN /\ last_cmd' = Cmd("enter", token, profile_name, FALSE, 1, FALSE, FALSE)
            /\ UNCHANGED <<io, file, now, available, proxy_running, registry, pc,
                           local, serial>>
       ELSE /\ BelowMaxRef(get_model_names(profile))
            /\ \E out \in EnsureProxy(profile.model_list) :
                  /\ proxy_running' = out.running
                  /\ registry' = out.registry
            /\ SetLocal(p, [IdleLocal EXCEPT !.op = "enter", !.token = token,
                                             !.profile = profile_name,
                                             !.directory = directory,
                                             !.model_names = get_model_names(profile)])
            /\ Goto(p, "enter_load")
            /\ last_cmd' = Cmd("enter_start", token, profile_name, FALSE, 0, FALSE, FALSE)
            /\ UNCHANGED <<io, file, now, available, serial>>

\* cmd_enter with ensure_models called again after load_state
EnterLoadEnsuring(p) ==
    LET l == local[p] IN
    /\ pc[p] = "enter_load"
    /\ SetLocal(p, [l EXCEPT !.t = now,
                             !.st = enter_update(load_state, l.token, l.profile,
                                                 l.directory, l.model_names, now)])
    /\ Goto(p, "enter_save")
    /\ last_cmd' = Cmd("enter_load", l.token, l.profile, FALSE, 0, FALSE, FALSE)
    /\ delete_calls' = {}
    /\ registry' = registry \cup Range(l.model_names)
    /\ UNCHANGED <<io, cmds, file, now, available, proxy_running, serial>>

\* cmd_enter, lines 191-193: load_state, add_token, increment_models
EnterLoad(p) ==
    LET l == local[p] IN
    /\ pc[p] = "enter_load"
    /\ SetLocal(p, [l EXCEPT !.t = now,
                             !.st = enter_update(load_state, l.token, l.profile,
                                                 l.directory, l.model_names, now)])
    /\ Goto(p, "enter_save")
    /\ last_cmd' = Cmd("enter_load", l.token, l.profile, FALSE, 0, FALSE, FALSE)
    /\ delete_calls' = {}
    /\ UNCHANGED <<io, cmds, file, now, available, proxy_running, registry, serial>>

\* cmd_enter, line 194: save_state
EnterSave(p) ==
    LET l == local[p] IN
    /\ pc[p] = "enter_save"
    /\ file' = l.st
    /\ serial' = enter_update(serial, l.token, l.profile, l.directory, l.model_names, l.t)
    /\ SetLocal(p, IdleLocal)
    /\ Goto(p, "idle")
    /\ last_cmd' = [Cmd("enter", l.token, l.profile, FALSE, 0, TRUE, FALSE)
                     EXCEPT !.directory = l.directory]
    /\ delete_calls' = {}
    /\ UNCHANGED <<io, cmds, now, available, proxy_running, registry>>

\* cmd_leave, lines 206-218: load_state to remove_token
LeaveLoad(p, token) ==
    LET st == load_state IN
    /\ pc[p] = "idle"
    /\ cmds < MaxCmds
    /\ cmds' = cmds + 1
    /\ delete_calls' = {}
    /\ IF token \notin DOMAIN st.active_tokens
       THEN /\ last_cmd' = Cmd("leave", token, None, FALSE, 0, FALSE, FALSE)
            /\ UNCHANGED <<pc, local>>
       ELSE /\ SetLocal(p, [IdleLocal EXCEPT !.op = "leave", !.token = token, !.t = now,
                                             !.st = leave_update(st, token, now)])
            /\ Goto(p, "leave_save")
            /\ last_cmd' = Cmd("leave_load", token, None, FALSE, 0, FALSE, FALSE)
    /\ UNCHANGED <<io, file, now, available, proxy_running, registry, serial>>

\* cmd_leave, line 219: save_state
LeaveSave(p) ==
    LET l == local[p] IN
    /\ pc[p] = "leave_save"
    /\ file' = l.st
    /\ serial' = IF l.token \in DOMAIN serial.active_tokens
                 THEN leave_update(serial, l.token, l.t)
                 ELSE serial
    /\ SetLocal(p, IdleLocal)
    /\ Goto(p, "idle")
    /\ last_cmd' = Cmd("leave", l.token, None, FALSE, 0, TRUE, FALSE)
    /\ delete_calls' = {}
    /\ UNCHANGED <<io, cmds, now, available, proxy_running, registry>>

\* cmd_janitor, lines 228-242: load_state, the rate limit, get_expired_leases
JanitorLoad(p, force) ==
    LET st == load_state
        st1 == mark_run(st, now)
        expired == get_expired_leases(st1, now)
    IN
    /\ pc[p] = "idle"
    /\ cmds < MaxCmds
    /\ cmds' = cmds + 1
    /\ delete_calls' = {}
    /\ IF rate_limited(st, force, now)
       THEN /\ last_cmd' = Cmd("janitor", None, None, force, 0, FALSE, TRUE)
            /\ UNCHANGED <<pc, local>>
       ELSE /\ SetLocal(p, [IdleLocal EXCEPT !.op = "janitor", !.force = force,
                                             !.t = now, !.st = st1,
                                             !.pending = expired])
            /\ Goto(p, IF expired = {} THEN "janitor_save" ELSE "janitor_delete")
            /\ last_cmd' = Cmd("janitor_load", None, None, force, 0, FALSE, FALSE)
    /\ UNCHANGED <<io, file, now, available, proxy_running, registry, serial>>

\* The loop over expired with a save_state after each delete_model call
JanitorDeleteSaving(p) ==
    LET l == local[p] IN
    /\ pc[p] = "janitor_delete"
    /\ \E model \in l.pending : \E oks \in DeleteOutcomes({model}) :
          /\ delete_calls' = {DeleteCall(model, model \in oks)}
          /\ registry' = registry \ oks
          /\ file' = sweep_update(l.st, oks)
          /\ SetLocal(p, [l EXCEPT !.st = sweep_update(l.st, oks),
                                   !.oks = l.oks \cup oks,
                                   !.pending = l.pending \ {model}])
          /\ Goto(p, IF l.pending = {model} THEN "janitor_save" ELSE "janitor_delete")
    /\ last_cmd' = Cmd("janitor_delete", None, None, l.force, 0, TRUE, FALSE)
    /\ UNCHANGED <<io, cmds, now, available, proxy_running, serial>>

\* cmd_janitor, lines 246-249: one iteration of the loop over expired
JanitorDelete(p) ==
    LET l == local[p] IN
    /\ pc[p] = "janitor_delete"
    /\ \E model \in l.pending : \E oks \in DeleteOutcomes({model}) :
          /\ delete_calls' = {DeleteCall(model, model \in oks)}
          /\ registry' = registry \ oks
          /\ SetLocal(p, [l EXCEPT !.st = sweep_update(l.st, oks),
                                   !.oks = l.oks \cup oks,
                                   !.pending = l.pending \ {model}])
          /\ Goto(p, IF l.pending = {model} THEN "janitor_save" ELSE "janitor_delete")
    /\ last_cmd' = Cmd("janitor_delete", None, None, l.force, 0, FALSE, FALSE)
    /\ UNCHANGED <<io, cmds, file, now, available, proxy_running, serial>>

\* cmd_janitor, lines 241 and 253: save_state
JanitorSave(p) ==
    LET l == local[p] IN
    /\ pc[p] = "janitor_save"
    /\ file' = l.st
    /\ serial' = sweep_update(mark_run(serial, l.t), l.oks)
    /\ SetLocal(p, IdleLocal)
    /\ Goto(p, "idle")
    /\ last_cmd' = Cmd("janitor", None, None, l.force, 0, TRUE, FALSE)
    /\ delete_calls' = {}
    /\ UNCHANGED <<io, cmds, now, available, proxy_running, registry>>

\* Time passes while commands run; here the clock moves by whole lease delays.
TickLease ==
    /\ now + LeaseDelay \in TimePoints
    /\ now' = now + LeaseDelay
    /\ last_cmd' = Cmd("tick", None, None, FALSE, 0, FALSE, FALSE)
    /\ delete_calls' = {}
    /\ UNCHANGED <<io, cmds, file, available, proxy_running, registry, pc, local, serial>>

NextConc ==
    \/ TickLease
    \/ \E p \in Procs :
          \/ \E token \in Tokens, profile_name \in ProfileNames, directory \in Dirs :
                EnterStart(p, token, profile_name, directory)
          \/ EnterLoad(p)
          \/ EnterSave(p)
          \/ \E token \in Tokens : LeaveLoad(p, token)
          \/ LeaveSave(p)
          \/ \E force \in BOOLEAN : JanitorLoad(p, force)
          \/ JanitorDelete(p)
          \/ JanitorSave(p)

SpecConc == Init /\ [][NextConc]_vars

\* The enter and leave handlers alone, step by step: no clock and no sweep.
NextEnter ==
    \E p \in Procs :
       \/ \E token \in Tokens, profile_name \in ProfileNames, directory \in Dirs :
             EnterStart(p, token, profile_name, directory)
       \/ EnterLoad(p)
       \/ EnterSave(p)
       \/ \E token \in Tokens : LeaveLoad(p, token)
       \/ LeaveSave(p)

SpecEnter == Init /\ [][NextEnter]_vars

\* A state file written by an earlier version of the tool, which recorded the
\* proxy's process id: State.from_dict keeps the value (state.py 80).
OldVersionPid == "4242"

OldVersionState ==
    /\ last_cmd = NoCmd
    /\ file' = [file EXCEPT !.proxy_pid = OldVersionPid]
    /\ serial' = file'
    /\ last_cmd' = Cmd("old_version", None, None, FALSE, 0, TRUE, FALSE)
    /\ delete_calls' = {}
    /\ UNCHANGED <<io, cmds, now, available, proxy_running, registry, pc, local>>

\* cmd_status: load_state and get_status, then prints; no save_state
cmd_status ==
    /\ last_cmd' = Cmd("status", None, None, FALSE, 0, FALSE, FALSE)
    /\ delete_calls' = {}
    /\ UNCHANGED <<io, cmds, file, now, available, proxy_running, registry, pc, local,
                   serial>>

\* The four commands one at a time, the clock moving by whole lease delays
NextFrame ==
    TickLease \/ OldVersionState \/ cmd_enter \/ cmd_leave \/ cmd_janitor \/ cmd_status

SpecFrame == Init /\ [][NextFrame]_vars

\* A sweep that is not rate-limited and whose delete calls all succeed
SweepDeleting ==
    /\ cmd_janitor
    /\ ~last_cmd'.limited
    /\ \A call \in delete_calls' : call.ok

\* enter, leave and janitor one at a time, the clock moving by whole lease
\* delays
NextLive == TickLease \/ cmd_enter \/ cmd_leave \/ cmd_janitor

\* Sweeps keep being run, and the registry's deletes succeed in the end
SpecLive == Init /\ [][NextLive]_vars /\ WF_vars(SweepDeleting)

-----------------------------------------------------------------------------
(* Commands run one at a time while the profile files are edited between    *)
(* them, and sessions enter from more than one directory.                   *)

Directories == {"d1", "d2"}

\* The profile files change between two commands: load_profile reads them
\* again in every command, so a name resolves or not from then on.
EditProfiles ==
    /\ \E names \in SUBSET ProfileNames :
          /\ names # available
          /\ available' = names
    /\ last_cmd' = Cmd("edit", None, None, FALSE, 0, FALSE, FALSE)
    /\ delete_calls' = {}
    /\ UNCHANGED <<io, cmds, file, now, proxy_running, registry, pc, local, serial>>

cmd_enter_from ==
    \E token \in Tokens, profile_name \in ProfileNames, directory \in Directories :
        \/ EnterNotFound(token, profile_name)
        \/ EnterOk(token, profile_name, directory)

NextProfiles == EditProfiles \/ cmd_enter_from \/ cmd_leave

SpecProfiles == Init /\ [][NextProfiles]_vars

\* cmd_enter's proxy block when every call succeeds: start_proxy returns True,
\* list_models gets the registry's answer and every add_model returns True
EnsureProxySucceeding(model_list) ==
    IF ~proxy_running
    THEN [running |-> TRUE, registry |-> registry \cup Range(model_list)]
    ELSE [running |-> TRUE,
          registry |-> ensure_models(model_list, registry, Range(model_list))]

\* cmd_enter with every proxy call succeeding
EnterSucceeding(token, profile_name, directory) ==
    /\ EnterOk(token, profile_name, directory)
    /\ LET out == EnsureProxySucceeding(load_profile(profile_name).model_list) IN
          /\ proxy_running' = out.running
          /\ registry' = out.registry

cmd_enter_succeeding ==
    \E token \in Tokens, profile_name \in ProfileNames, directory \in Dirs :
        \/ EnterNotFound(token, profile_name)
        \/ EnterSucceeding(token, profile_name, directory)

\* cmd_janitor with every delete_model call returning True
cmd_janitor_succeeding ==
    /\ cmd_janitor
    /\ \A call \in delete_calls' : call.ok

\* enter, leave and janitor one at a time, every registry call succeeding;
\* the profile files may be edited between two commands
NextSucceeding ==
    \/ TickLease
    \/ EditProfiles
    \/ cmd_enter_succeeding
    \/ cmd_leave
    \/ cmd_janitor_succeeding

SpecSucceeding == Init /\ [][NextSucceeding]_vars

-----------------------------------------------------------------------------
(* The profile files: a file is written or removed between two calls of     *)
(* load_profile, each call being one process's (the cache lives as long as  *)
(* the process).                                                            *)

EditProfilesFile(f, content) ==
    /\ content # profile_files[f]
    /\ profile_files' = [profile_files EXCEPT ![f] = content]
    /\ loaded' = NotLoaded
    /\ last_cmd' = Cmd("edit_profiles", None, None, FALSE, 0, FALSE, FALSE)
    /\ delete_calls' = {}
    /\ UNCHANGED <<health, hooks, disk, raised, add_calls, cmds, file, now, available,
                   proxy_running, registry, pc, local, serial>>

LoadProfile(name) ==
    /\ loaded' = load_profile_search(name)
    /\ last_cmd' = Cmd("load_profile", None, name, FALSE, 0, FALSE, FALSE)
    /\ delete_calls' = {}
    /\ UNCHANGED <<health, hooks, disk, raised, add_calls, cmds, file, now, available,
                   proxy_running, registry, pc, local, serial, profile_files>>

NextFiles ==
    \/ \E f \in Range(SearchOrder), content \in FileStates : EditProfilesFile(f, content)
    \/ \E name \in FileNames : LoadProfile(name)

SpecFiles == Init /\ [][NextFiles]_vars

-----------------------------------------------------------------------------
(* The hook chain: hooks are registered, and the chain is executed with a   *)
(* fresh context.  Each hook is registered under a name of its own.         *)

\* The variables the hooks leave alone
leases == <<health, disk, raised, add_calls, profile_files, loaded, cmds, file, now, available,
            proxy_running, registry, pc, local, serial, delete_calls>>

Register(event, hook) ==
    /\ ChainSize(hook_chain) < MaxHooks
    /\ hook_chain' = register(hook_chain, event, ChainSize(hook_chain) + 1, hook)
    /\ executed' = NotExecuted
    /\ last_cmd' = Cmd("register", None, None, FALSE, 0, FALSE, FALSE)
    /\ UNCHANGED <<leases, load_result>>

Execute(event, stop_chain) ==
    /\ executed' = execute(hook_chain, HookContext(event, NoConfig, {}, stop_chain))
    /\ last_cmd' = Cmd("execute", None, None, FALSE, 0, FALSE, FALSE)
    /\ UNCHANGED <<leases, hook_chain, load_result>>

\* reset_hook_chain
ResetChain ==
    /\ hook_chain # EmptyChain
    /\ hook_chain' = EmptyChain
    /\ executed' = NotExecuted
    /\ load_result' = NotLoadedHooks
    /\ last_cmd' = Cmd("reset", None, None, FALSE, 0, FALSE, FALSE)
    /\ UNCHANGED leases

NextHooks ==
    \/ \E event \in UsedEvents, hook \in HookFn : Register(event, hook)
    \/ \E event \in UsedEvents, stop_chain \in BOOLEAN : Execute(event, stop_chain)
    \/ ResetChain

\* The variables health_check leaves alone
rest == <<hooks, disk, raised, add_calls, profile_files, loaded, cmds, file, now,
          available, proxy_running, registry, pc, local, serial, delete_calls>>

-----------------------------------------------------------------------------
(* health_check, request by request: called directly with any arguments,    *)
(* and by ensure_models as cmd_enter calls it.  The proxy answers as it     *)
(* likes.  A call that never returns is followed up to MaxRequests.         *)

HealthCheckCall(wait_for_recovery, max_retries) ==
    /\ health.pc # "loop"
    /\ health' = health_check_call(wait_for_recovery, max_retries)
    /\ last_cmd' = Cmd("health_check", None, None, FALSE, 0, FALSE, FALSE)
    /\ UNCHANGED rest

\* ensure_models, lines 903-904, with wait_for_recovery=True as in cmd_enter
EnsureModelsWait ==
    /\ health.pc # "loop"
    /\ health' = health_check_call(TRUE, HEALTH_CHECK_RETRIES)
    /\ last_cmd' = Cmd("ensure_models", None, None, FALSE, 0, FALSE, FALSE)
    /\ UNCHANGED rest

HealthRequest(answer) ==
    /\ health.pc = "loop"
    /\ health.requests < MaxRequests
    /\ health' = health_check_request(health, answer)
    /\ last_cmd' = [last_cmd EXCEPT !.rc = 0]
    /\ UNCHANGED rest

NextHealth ==
    \/ \E wait_for_recovery \in BOOLEAN, max_retries \in 0..MaxRetries :
          HealthCheckCall(wait_for_recovery, max_retries)
    \/ EnsureModelsWait
    \/ \E answer \in Answers : HealthRequest(answer)

\* Each request is answered or times out, so the loop goes on
SpecHealth ==
    Init /\ [][NextHealth]_vars /\ WF_vars(\E answer \in Answers : HealthRequest(answer))

SpecHooks == Init /\ [][NextHooks]_vars

\* The chain with hooks of any kind registered, those returning None included
NextAnyHooks ==
    \/ \E event \in UsedEvents, hook \in AnyHookFn : Register(event, hook)
    \/ \E event \in UsedEvents, stop_chain \in BOOLEAN : Execute(event, stop_chain)
    \/ ResetChain

SpecAnyHooks == Init /\ [][NextAnyHooks]_vars

-----------------------------------------------------------------------------
(* The loader: hooks files are loaded onto the global chain one after       *)
(* another, and the chain is reset.                                         *)

LoadHooksFromConfig(config) ==
    LET out == load_hooks_from_config(hook_chain, config) IN
    /\ ChainSize(out.chain) <= MaxHooks
    /\ hook_chain' = out.chain
    /\ load_result' = [config |-> config, count |-> out.count]
    /\ executed' = NotExecuted
    /\ last_cmd' = Cmd("load_hooks", None, None, FALSE, 0, FALSE, FALSE)
    /\ UNCHANGED leases

NextLoader ==
    \/ \E config \in Configs : LoadHooksFromConfig(config)
    \/ ResetChain

SpecLoader == Init /\ [][NextLoader]_vars

-----------------------------------------------------------------------------
(* Commands run one at a time on a state file that something else may have  *)
(* damaged, in a state directory that may refuse the write, with a          *)
(* models.yaml that may not parse.                                          *)

\* What state.json holds: "saved" is no file or the JSON save_state wrote
\* (the variable file); the others are content that is not such a State.
DiskKinds == {"saved", "unreadable", "not_json", "not_utf8", "json_list", "tokens_list"}

\* load_state and State.from_dict on that content: the exception that leaves
\* load_state, if any, and the State returned otherwise.  OSError and
\* JSONDecodeError are caught; UnicodeDecodeError (read_text) and the
\* AttributeError of from_dict calling .get or .items on a list are not.
load_state_result(kind, content) ==
    CASE kind = "saved" -> [raised |-> NoException, st |-> content]
      [] kind \in {"unreadable", "not_json"} -> [raised |-> NoException, st |-> EmptyState]
      [] kind = "not_utf8" -> [raised |-> "UnicodeDecodeError", st |-> EmptyState]
      [] kind \in {"json_list", "tokens_list"} -> [raised |-> "AttributeError", st |-> EmptyState]

\* The state file is overwritten or made unreadable by something other than
\* save_state.
DamageFile ==
    /\ \E kind \in DiskKinds \ {"saved"} :
          /\ kind # disk
          /\ disk' = kind
    /\ file' = EmptyState
    /\ serial' = file'
    /\ raised' = NoException
    /\ last_cmd' = Cmd("damage", None, None, FALSE, 0, FALSE, FALSE)
    /\ delete_calls' = {}
    /\ UNCHANGED <<aux, add_calls, cmds, now, available, proxy_running, registry, pc, local>>

\* A command that ends by an exception nothing catches: the interpreter
\* prints the traceback and exits with status 1; the state file is untouched.
Uncaught(cmd, exception) ==
    /\ raised' = exception
    /\ last_cmd' = [cmd EXCEPT !.rc = 1, !.wrote = FALSE]
    /\ UNCHANGED <<file, disk, serial>>

\* save_state: mkdir and write_text succeed, or raise OSError
Save(cmd, st, writable) ==
    IF writable
    THEN /\ file' = st
         /\ disk' = "saved"
         /\ serial' = file'
         /\ raised' = NoException
         /\ last_cmd' = cmd
    ELSE Uncaught(cmd, "OSError")

\* A command that returns without reading or writing any further.
Return(cmd) ==
    /\ raised' = NoException
    /\ last_cmd' = cmd
    /\ UNCHANGED <<file, disk, serial>>

\* cmd_enter; models_ok says whether load_model_definitions parses models.yaml
cmd_enter_io ==
    \E token \in Tokens, profile_name \in ProfileNames, directory \in Dirs,
       models_ok \in BOOLEAN, writable \in BOOLEAN :
        LET profile == load_profile(profile_name)
            r == load_state_result(disk, file)
            cmd == [Cmd("enter", token, profile_name, FALSE, 0, TRUE, FALSE)
                      EXCEPT !.directory = directory]
        IN
        /\ delete_calls' = {}
        /\ UNCHANGED <<aux, add_calls, cmds, now, available, pc, local>>
        /\ IF ~profile.found
           THEN /\ Return(Cmd("enter", token, profile_name, FALSE, 1, FALSE, FALSE))
                /\ UNCHANGED <<proxy_running, registry>>
           ELSE IF ~models_ok
           THEN /\ Uncaught(cmd, "YAMLError")
                /\ UNCHANGED <<proxy_running, registry>>
           ELSE /\ BelowMaxRef(get_model_names(profile))
                /\ \E out \in EnsureProxy(profile.model_list) :
                      /\ proxy_running' = out.running
                      /\ registry' = out.registry
                /\ IF r.raised # NoException
                   THEN Uncaught(cmd, r.raised)
                   ELSE Save(cmd, enter_update(r.st, token, profile_name, directory,
                                               get_model_names(profile), now),
                             writable)

\* cmd_leave
cmd_leave_io ==
    \E token \in Tokens, models_ok \in BOOLEAN, writable \in BOOLEAN :
        LET r == load_state_result(disk, file)
            st == r.st
            absent == Cmd("leave", token, None, FALSE, 0, FALSE, FALSE)
        IN
        /\ delete_calls' = {}
        /\ UNCHANGED <<aux, add_calls, cmds, now, available, proxy_running, registry, pc, local>>
        /\ IF r.raised # NoException
           THEN Uncaught(absent, r.raised)
           ELSE IF token \notin DOMAIN st.active_tokens
           THEN Return(absent)
           ELSE LET name == st.active_tokens[token].profile
                    cmd == Cmd("leave", token, name, FALSE, 0, TRUE, FALSE)
                IN IF load_profile(name).found /\ ~models_ok
                   THEN Uncaught(cmd, "YAMLError")
                   ELSE Save(cmd, leave_update(st, token, now), writable)

\* cmd_janitor
cmd_janitor_io ==
    \E force \in BOOLEAN, writable \in BOOLEAN :
        LET r == load_state_result(disk, file)
            st == r.st
            st1 == mark_run(st, now)
            expired == get_expired_leases(st1, now)
            cmd == Cmd("janitor", None, None, force, 0, TRUE, FALSE)
        IN
        /\ UNCHANGED <<aux, add_calls, cmds, now, available, proxy_running, pc, local>>
        /\ IF r.raised # NoException
           THEN /\ Uncaught(cmd, r.raised)
                /\ delete_calls' = {}
                /\ UNCHANGED registry
           ELSE IF rate_limited(st, force, now)
           THEN /\ Return(Cmd("janitor", None, None, force, 0, FALSE, TRUE))
                /\ delete_calls' = {}
                /\ UNCHANGED registry
           ELSE \E oks \in DeleteOutcomes(expired) :
                /\ delete_calls' = {DeleteCall(m, m \in oks) : m \in expired}
                /\ registry' = registry \ oks
                /\ Save(cmd, sweep_update(st1, oks), writable)

NextIO == TickLease \/ DamageFile \/ cmd_enter_io \/ cmd_leave_io \/ cmd_janitor_io

SpecIO == Init /\ [][NextIO]_vars

-----------------------------------------------------------------------------
(* A sweep that may be terminated: process p1 runs cmd_janitor step by      *)
(* step and can be killed between two steps; enter and leave run in between *)
(* sweeps.                                                                  *)

Sweeper == "p1"

\* The process is terminated inside cmd_janitor, after load_state and before
\* save_state: what it held in memory is lost.
Kill(p) ==
    /\ pc[p] \in {"janitor_delete", "janitor_save"}
    /\ SetLocal(p, IdleLocal)
    /\ Goto(p, "idle")
    /\ last_cmd' = Cmd("kill", None, None, local[p].force, 1, FALSE, FALSE)
    /\ delete_calls' = {}
    /\ UNCHANGED <<io, cmds, file, now, available, proxy_running, registry, serial>>

EnterBetweenSweeps == AllIdle /\ cmd_enter

LeaveBetweenSweeps == AllIdle /\ cmd_leave

NextSweep ==
    \/ TickLease
    \/ EnterBetweenSweeps
    \/ LeaveBetweenSweeps
    \/ \E force \in BOOLEAN : JanitorLoad(Sweeper, force)
    \/ JanitorDelete(Sweeper)
    \/ JanitorSave(Sweeper)
    \/ Kill(Sweeper)

SpecSweep == Init /\ [][NextSweep]_vars

-----------------------------------------------------------------------------
(* The proxy's registry alone: start_proxy, stop_proxy, ensure_models and   *)
(* delete_model called with the model lists of the profiles.                *)

\* The record of one add_model call: the model, the call's result and whether
\* the registry held the model when the call was made.
AddCall(model, ok) == [model |-> model, ok |-> ok, registered |-> model \in registry]

\* cmd_enter, lines 179-182: the proxy is not running and is started
StartProxy(profile_name) ==
    /\ ~proxy_running
    /\ \E out \in EnsureProxy(ProfileModelList(profile_name)) :
          /\ proxy_running' = out.running
          /\ registry' = out.registry
    /\ last_cmd' = Cmd("start_proxy", None, profile_name, FALSE, 0, FALSE, FALSE)
    /\ delete_calls' = {}
    /\ UNCHANGED <<io, cmds, file, now, available, pc, local, serial>>

\* stop_proxy: the container stops, the models it stored stay registered
StopProxy ==
    /\ proxy_running
    /\ proxy_running' = FALSE
    /\ last_cmd' = Cmd("stop_proxy", None, None, FALSE, 0, FALSE, FALSE)
    /\ delete_calls' = {}
    /\ UNCHANGED <<io, cmds, file, now, available, registry, pc, local, serial>>

\* ensure_models on a running proxy: listed says whether list_models got the
\* registry's answer (it returns [] on any failure), ok_adds which add_model
\* calls succeed.
EnsureModels(profile_name) ==
    LET model_list == ProfileModelList(profile_name) IN
    /\ proxy_running
    /\ \E listed \in BOOLEAN, ok_adds \in SUBSET Range(model_list) :
          LET existing == IF listed THEN registry ELSE {} IN
          /\ add_calls' = {AddCall(m, m \in ok_adds) : m \in Range(model_list) \ existing}
          /\ registry' = ensure_models(model_list, existing, ok_adds)
    /\ last_cmd' = Cmd("ensure_models", None, profile_name, FALSE, 0, FALSE, FALSE)
    /\ delete_calls' = {}
    /\ UNCHANGED <<aux, disk, raised, cmds, file, now, available, proxy_running, pc, local, serial>>

\* delete_model
DeleteModel(model) ==
    /\ \E oks \in DeleteOutcomes({model}) :
          /\ delete_calls' = {DeleteCall(model, model \in oks)}
          /\ registry' = registry \ oks
    /\ last_cmd' = Cmd("delete_model", None, None, FALSE, 0, FALSE, FALSE)
    /\ UNCHANGED <<io, cmds, file, now, available, proxy_running, pc, local, serial>>

NextRegistry ==
    \/ \E profile_name \in available : StartProxy(profile_name)
    \/ StopProxy
    \/ \E profile_name \in available : EnsureModels(profile_name)
    \/ \E model \in Models : DeleteModel(model)

SpecRegistry == Init /\ [][NextRegistry]_vars

-----------------------------------------------------------------------------
(* Properties *)

Refcount(st, m) == Get(st.model_refcounts, m, 0)

Leased(st) == DOMAIN st.model_leases

CalledModels(calls) == {c.model : c \in calls}

\* The tokens whose recorded profile resolves to a model set containing m.
TokensUsing(st, m) ==
    {t \in DOMAIN st.active_tokens :
        m \in Range(get_model_names(load_profile(st.active_tokens[t].profile)))}

\* C1: for every model, the stored refcount (0 if absent) equals the number
\* of active tokens whose recorded profile resolves to a model set holding it.
C1_RefcountIsTokenCount ==
    \A m \in Models : Refcount(file, m) = Cardinality(TokensUsing(file, m))

C3_NoLeaseWhileCounted == \A m \in Leased(file) : Refcount(file, m) = 0

C3_LeaseStep ==
    /\ C3_NoLeaseWhileCounted'
    /\ \A m \in Models :
          /\ (Refcount(file, m) > 0 /\ Refcount(file', m) = 0) => m \in Leased(file')
          /\ (m \in Leased(file) /\ m \notin Leased(file')) =>
                \/ Refcount(file', m) > Refcount(file, m)
                \/ \E c \in delete_calls' : c.model = m /\ c.ok

\* C3: no model is both leased and at a nonzero refcount; a model whose
\* refcount is decremented to zero is leased, and a lease leaves the map only
\* by an increment of the model or a successful janitor deletion of it.
C3_LeaseExclusion == C3_NoLeaseWhileCounted /\ [][C3_LeaseStep]_vars

C3_Witness ==
    /\ last_cmd.op = "enter"
    /\ Refcount(file, "m2") > 0
    /\ "m2" \notin Leased(file)
    /\ "m1" \in Leased(file)

\* C4: every value stored in model_refcounts is at least 1, whatever lists
\* increment_models and decrement_models were called on.
C4_RefcountsPositive ==
    \A m \in DOMAIN file.model_refcounts : file.model_refcounts[m] >= 1

C4_Witness ==
    /\ last_cmd.op = "decrement"
    /\ "m1" \notin DOMAIN file.model_refcounts
    /\ "m1" \in Leased(file)
    /\ Refcount(file, "m2") = 1

C6_SweepStep ==
    (last_cmd'.op = "janitor" /\ ~last_cmd'.limited) =>
        CalledModels(delete_calls') =
            {m \in Models : /\ m \in Leased(file)
                            /\ now >= file.model_leases[m]
                            /\ Refcount(file, m) = 0}

\* C6: a sweep that is not rate-limited calls delete exactly for the models
\* that have a lease with now >= lease (the boundary included) and a refcount
\* absent or 0 in the loaded state.
C6_SweepDeletesExpired == [][C6_SweepStep]_vars

C6_Witness ==
    /\ last_cmd.op = "janitor"
    /\ \E c \in delete_calls : ~c.ok /\ file.model_leases[c.model] = now
    /\ \E m \in Leased(file) : file.model_leases[m] > now

C7_ReentryStep ==
    /\ \A m \in Models :
          (last_cmd'.op = "enter" /\ m \in Leased(file)
             /\ Refcount(file', m) > Refcount(file, m)) => m \notin Leased(file')
    /\ \A c \in delete_calls' : Refcount(file, c.model) = 0

\* C7: an enter that increments a leased model removes its lease, and no
\* sweep calls delete for a model whose refcount is nonzero.
C7_ReentryCancelsLease == [][C7_ReentryStep]_vars

C7_Witness ==
    /\ last_cmd.op = "janitor"
    /\ CalledModels(delete_calls) = {"m1"}
    /\ Refcount(file, "m2") > 0
    /\ now >= StartTime + LeaseDelay

C8_SweepStep ==
    (last_cmd'.op = "janitor" /\ ~last_cmd'.limited) =>
        /\ get_expired_leases(file, now) \subseteq CalledModels(delete_calls')
        /\ \A c \in delete_calls' :
              ~c.ok => /\ c.model \in Leased(file')
                       /\ file'.model_leases[c.model] = file.model_leases[c.model]
        /\ Leased(file) \ Leased(file') = {c.model : c \in {d \in delete_calls' : d.ok}}

\* C8: in a sweep, a failed delete leaves that model's lease in place, delete
\* is still attempted for every expired model, and the leases removed are
\* exactly those of the models whose delete succeeded.
C8_FailedDeleteKeepsLease == [][C8_SweepStep]_vars

C8_Witness ==
    /\ last_cmd.op = "janitor"
    /\ \E c1, c2 \in delete_calls :
          /\ c1.ok /\ c1.model \notin Leased(file)
          /\ ~c2.ok /\ c2.model \in Leased(file)

C9_LimitedStep ==
    (last_cmd'.op = "janitor" /\ ~last_cmd'.force
        /\ now - file.last_janitor_run < 60) =>
        /\ file' = file
        /\ ~last_cmd'.wrote
        /\ delete_calls' = {}
        /\ registry' = registry

\* C9: a sweep without force less than 60 seconds after last_janitor_run
\* issues no delete call and leaves the persisted state identical.
C9_RateLimitedSweepIsNoOp == [][C9_LimitedStep]_vars

C9_Witness ==
    /\ last_cmd.op = "janitor"
    /\ last_cmd.limited
    /\ \E m \in Leased(file) : now >= file.model_leases[m] /\ Refcount(file, m) = 0

C10_LeaveStep ==
    last_cmd'.op = "leave" =>
        /\ last_cmd'.rc = 0
        /\ last_cmd'.token \notin DOMAIN file'.active_tokens
        /\ last_cmd'.token \notin DOMAIN file.active_tokens => file' = file

\* C10: leave for a token that is not active (never entered, or already
\* left) returns 0 and changes nothing; after any leave the token is absent,
\* so a second leave in a row is such a call.
C10_LeaveIdempotent == [][C10_LeaveStep]_vars

C10_Witness ==
    /\ last_cmd.op = "leave"
    /\ ~last_cmd.wrote
    /\ DOMAIN file.active_tokens = {}
    /\ \E m \in Leased(file) : file.model_leases[m] < now + LeaseDelay

\* C2: once every command has returned, the state file holds the updates of
\* all of them, as if their load -> mutate -> save sequences had run one
\* after the other in the order of their saves.
C2_NoLostUpdate == AllIdle => file = serial

\* C5: no delete call is issued for a model at a moment when the state file
\* records a nonzero refcount for it.
C5_NoDeleteWhileCounted == \A c \in delete_calls : c.file_refcount = 0

C11_EnterStep ==
    (last_cmd'.op = "enter" /\ last_cmd'.profile \notin available) =>
        /\ last_cmd'.rc = 1
        /\ ~last_cmd'.wrote
        /\ file' = file
        /\ proxy_running' = proxy_running
        /\ registry' = registry

\* C11: enter with a profile that does not resolve returns 1 and changes
\* nothing: the state file is not written (no token, refcount or lease
\* changes) and the proxy and its registry are left alone.
C11_UnresolvedEnterChangesNothing == [][C11_EnterStep]_vars

C11_Witness ==
    /\ last_cmd.op = "enter"
    /\ last_cmd.rc = 1
    /\ last_cmd.profile = "A"
    /\ last_cmd.token \in DOMAIN file.active_tokens
    /\ file.active_tokens[last_cmd.token].profile = "A"
    /\ proxy_running

C12_EnterStep ==
    (last_cmd'.op = "enter" /\ last_cmd'.profile \in available) =>
        /\ last_cmd'.rc = 0
        /\ last_cmd'.wrote
        /\ last_cmd'.token \in DOMAIN file'.active_tokens
        /\ file'.active_tokens[last_cmd'.token].profile = last_cmd'.profile
        /\ \A m \in Models :
              Refcount(file', m) =
                 Refcount(file, m) +
                 (IF m \in Range(ProfileModelList(last_cmd'.profile)) THEN 1 ELSE 0)

C13_DecrementStep ==
    last_cmd'.op = "decrement" =>
        \A m \in Models :
            m \notin DOMAIN file.model_refcounts =>
                /\ m \notin DOMAIN file'.model_refcounts
                /\ (m \in Leased(file')) = (m \in Leased(file))
                /\ m \in Leased(file) => file'.model_leases[m] = file.model_leases[m]

\* C13: decrement_models leaves a model that has no refcount entry as it
\* was: no refcount entry appears for it and its lease, present or absent,
\* is what it was before the call.
C13_UntrackedDecrementIsNoOp == [][C13_DecrementStep]_vars

C14_EnterStep ==
    LET token == last_cmd'.token
        profile == last_cmd'.profile
    IN (/\ last_cmd'.op = "enter"
        /\ last_cmd'.rc = 0
        /\ token \in DOMAIN file.active_tokens
        /\ file.active_tokens[token].profile # profile) =>
           /\ DOMAIN file'.active_tokens = DOMAIN file.active_tokens
           /\ file'.active_tokens[token] = TokenInfo(profile, now, last_cmd'.directory)
           /\ \A other \in DOMAIN file.active_tokens \ {token} :
                 file'.active_tokens[other] = file.active_tokens[other]
           /\ \A m \in Models :
                 Refcount(file', m) =
                    Refcount(file, m) +
                    (IF m \in Range(ProfileModelList(profile)) THEN 1 ELSE 0)

\* C14: an active token that enters again with a different profile keeps one
\* entry, which holds the new profile and directory; each model of the new
\* profile is incremented by one and no model of the old profile is
\* decremented.
C14_ReenterLastWriteWins == [][C14_EnterStep]_vars

C14_Witness ==
    /\ last_cmd.op = "enter"
    /\ last_cmd.profile = "B"
    /\ last_cmd.directory = "d2"
    /\ DOMAIN file.active_tokens = {last_cmd.token}
    /\ Refcount(file, "m1") = 1
    /\ Refcount(file, "m2") = 2

C15_LeaveStep ==
    LET token == last_cmd'.token IN
    (/\ last_cmd'.op = "leave"
     /\ token \in DOMAIN file.active_tokens
     /\ file.active_tokens[token].profile \notin available) =>
        /\ last_cmd'.rc = 0
        /\ DOMAIN file'.active_tokens = DOMAIN file.active_tokens \ {token}
        /\ file'.model_refcounts = file.model_refcounts
        /\ file'.model_leases = file.model_leases

\* C15: leave of an active token whose recorded profile no longer resolves
\* removes the token, changes no refcount, creates no lease and returns 0.
C15_LeaveUnresolvedProfile == [][C15_LeaveStep]_vars

C15_Witness ==
    /\ last_cmd.op = "leave"
    /\ last_cmd.wrote
    /\ last_cmd.profile = "A"
    /\ "A" \notin available
    /\ DOMAIN file.active_tokens = {}
    /\ Refcount(file, "m1") = 1
    /\ Leased(file) = {}

\* C16: load_state never raises, whatever the state file holds: no command
\* ends by an exception that left load_state (it returns the empty State for
\* every content that is not a saved State).
C16_LoadStateNeverRaises ==
    raised \notin {"AttributeError", "UnicodeDecodeError"}

\* C19: leave and janitor return 0 in every outcome, enter returns 0 or 1,
\* and no command ends by an uncaught exception.
C19_AlwaysAnExitCode ==
    /\ raised = NoException
    /\ last_cmd.op \in {"leave", "janitor"} => last_cmd.rc = 0
    /\ last_cmd.op = "enter" => last_cmd.rc \in {0, 1}

\* The active tokens all recorded the profile of the leaving token, and each
\* model of that profile is counted once per token.
OnlyTokensOf(st, profile) ==
    /\ \A t \in DOMAIN st.active_tokens : st.active_tokens[t].profile = profile
    /\ \A m \in Range(ProfileModelList(profile)) :
          Refcount(st, m) = Cardinality(DOMAIN st.active_tokens)

C17_LeaveStep ==
    LET token == last_cmd'.token
        profile == file.active_tokens[token].profile
        k == Cardinality(DOMAIN file.active_tokens)
    IN (/\ last_cmd'.op = "leave"
        /\ token \in DOMAIN file.active_tokens
        /\ OnlyTokensOf(file, profile)) =>
           \A m \in Range(ProfileModelList(profile)) :
              IF k > 1
              THEN /\ Refcount(file', m) = k - 1
                   /\ file'.model_leases = file.model_leases
                   /\ m \notin Leased(file')
              ELSE /\ m \notin DOMAIN file'.model_refcounts
                   /\ m \in Leased(file')
                   /\ file'.model_leases[m] = now + 900

\* A sweep and a leased model: before the lease time no delete and the lease
\* stays; from the lease time on a delete call is issued.
C17_SweepCalls(m) ==
    IF now < file.model_leases[m]
    THEN /\ m \notin CalledModels(delete_calls')
         /\ m \in Leased(file')
         /\ file'.model_leases[m] = file.model_leases[m]
    ELSE m \in CalledModels(delete_calls')

C17_SweepStepCleared ==
    (last_cmd'.op = "janitor" /\ ~last_cmd'.limited) =>
        \A m \in Leased(file) :
            Refcount(file, m) = 0 =>
                /\ C17_SweepCalls(m)
                /\ now >= file.model_leases[m] => m \notin Leased(file')

C17_SweepStep ==
    (last_cmd'.op = "janitor" /\ ~last_cmd'.limited) =>
        \A m \in Leased(file) :
            Refcount(file, m) = 0 =>
                /\ C17_SweepCalls(m)
                /\ now >= file.model_leases[m] =>
                      (m \notin Leased(file')) =
                         (\E c \in delete_calls' : c.model = m /\ c.ok)

\* C17 as stated: of k tokens of one profile, the first k-1 leaves lower the
\* refcounts and create no lease, the k-th removes the entries and leases
\* every model at now+900; a sweep before that time deletes nothing and
\* keeps the leases; a sweep at or after it issues a delete for each model
\* and clears its lease.
C17_LastLeaveLeasesSweepClears == [][C17_LeaveStep /\ C17_SweepStepCleared]_vars

\* C17 amended: as above, except that the sweep at or after the lease time
\* clears the lease of exactly the models whose delete call succeeded.
C17_LastLeaveLeasesSweepDeletes == [][C17_LeaveStep /\ C17_SweepStep]_vars

C17_Witness ==
    /\ last_cmd.op = "janitor"
    /\ ~last_cmd.limited
    /\ DOMAIN file.active_tokens = {}
    /\ DOMAIN file.model_refcounts = {}
    /\ CalledModels(delete_calls) = {"m1", "m2"}
    /\ "m1" \notin Leased(file)
    /\ "m2" \in Leased(file)
    /\ file.model_leases["m2"] = now

C18_NoWriteBeforeTheEnd ==
    /\ file = serial
    /\ \A p \in Procs : pc[p] = "janitor_save" => local[p].pending = {}

C18_SweepStep ==
    /\ last_cmd'.op \in {"janitor_load", "janitor_delete", "kill"} =>
          (file' = file /\ ~last_cmd'.wrote)
    /\ last_cmd'.op = "janitor" /\ ~last_cmd'.limited =>
          (last_cmd'.wrote /\ pc'[Sweeper] = "idle")

\* C18: a sweep writes the state file once, in its last step, after every
\* delete call of the batch; the steps before it leave the file alone, so
\* the file always holds the result of the commands that ran to their end
\* and a sweep killed in the middle of the batch leaves no trace in it.
C18_SweepWritesOnceAtTheEnd == []C18_NoWriteBeforeTheEnd /\ [][C18_SweepStep]_vars

C18_Witness ==
    /\ pc[Sweeper] = "janitor_delete"
    /\ local[Sweeper].pending # {}
    /\ \E m \in local[Sweeper].oks :
          /\ m \in Leased(file)
          /\ m \notin Leased(local[Sweeper].st)
          /\ m \notin registry

\* C20: ensure_models issues no add call for a model the registry already
\* holds, so a second call with the same definitions adds nothing and no
\* model is registered twice.
C20_NoAddForRegistered == \A c \in add_calls : ~c.registered

\* The number of times a model occurs in a list.
Occurrences(models, m) == Cardinality({i \in DOMAIN models : models[i] = m})

C21_DecrementStep ==
    last_cmd'.op = "decrement" =>
        /\ \A m \in Range(last_cmd'.models) :
              LET n == Refcount(file, m)
                  j == Occurrences(last_cmd'.models, m)
              IN /\ n > j =>
                       /\ Refcount(file', m) = n - j
                       /\ (m \in Leased(file')) = (m \in Leased(file))
                       /\ m \in Leased(file) => file'.model_leases[m] = file.model_leases[m]
                 /\ (n >= 1 /\ n <= j) =>
                       /\ m \notin DOMAIN file'.model_refcounts
                       /\ m \in Leased(file')
                       /\ file'.model_leases[m] = now + LeaseDelay
        /\ \A m1, m2 \in Models :
              (/\ Refcount(file, m1) > 0 /\ Refcount(file', m1) = 0
               /\ Refcount(file, m2) > 0 /\ Refcount(file', m2) = 0) =>
                 file'.model_leases[m1] = file'.model_leases[m2]

\* C21: each decrement of a model whose refcount stays above zero lowers it
\* by one and leaves its lease as it was; the decrement that takes it from 1
\* to zero removes the entry and sets the lease to now + lease_delay; the
\* models that reach zero in one call get the same expiry.
C21_DecrementLowersOrLeases == [][C21_DecrementStep]_vars

C21_Witness ==
    /\ last_cmd.op = "decrement"
    /\ last_cmd.models = <<"m1", "m2">>
    /\ now > StartTime
    /\ Refcount(file, "m1") = 1
    /\ "m1" \notin Leased(file)
    /\ "m2" \notin DOMAIN file.model_refcounts
    /\ file.model_leases = [m \in {"m2"} |-> now + LeaseDelay]

C28_DecrementStep ==
    last_cmd'.op = "decrement" =>
        \A m \in Range(last_cmd'.models) :
            (Refcount(file, m) = 0 /\ m \in Leased(file)) =>
                /\ m \notin DOMAIN file'.model_refcounts
                /\ m \in Leased(file')
                /\ file'.model_leases[m] = now + LeaseDelay
                /\ (\A x \in Range(last_cmd'.models) : Refcount(file, x) = 0) =>
                      file'.model_refcounts = file.model_refcounts

\* C28: a decrement of a model that is at zero and leased leaves
\* model_refcounts as it was and sets the model's one lease to the newer
\* now + lease_delay.
C28_DecrementRefreshesLease == [][C28_DecrementStep]_vars

C28_Witness ==
    /\ last_cmd.op = "decrement"
    /\ last_cmd.models = <<"m1">>
    /\ now >= StartTime + LeaseDelay
    /\ DOMAIN file.model_refcounts = {}
    /\ file.model_leases["m1"] = now + LeaseDelay
    /\ "m2" \in Leased(file)
    /\ file.model_leases["m2"] < now

C30_SweepStep ==
    (/\ last_cmd'.op = "janitor"
     /\ last_cmd'.force \/ now - file.last_janitor_run >= 60) =>
        /\ ~last_cmd'.limited
        /\ last_cmd'.wrote
        /\ file'.last_janitor_run = now

\* C30: a sweep that is forced, or that runs 60 seconds or more after
\* last_janitor_run, is not skipped and persists last_janitor_run = now,
\* whether or not a lease has expired and whatever the delete calls return.
C30_SweepRecordsItsRun == [][C30_SweepStep]_vars

C30_Witness ==
    /\ last_cmd.op = "janitor"
    /\ last_cmd.force
    /\ file.last_janitor_run = now
    /\ delete_calls # {}
    /\ \A c \in delete_calls : ~c.ok
    /\ \E m \in Leased(file) : file.model_leases[m] > now

\* C27: load_state after save_state returns the State that was saved, with
\* the same tokens (profile, last_seen, directory), refcounts, leases,
\* last_janitor_run and proxy_pid.
C27_SaveLoadRoundTrip == State_from_dict(State_to_dict(file)) = file

C27_Witness ==
    /\ last_cmd.wrote
    /\ disk = "saved"
    /\ DOMAIN file.active_tokens # {}
    /\ DOMAIN file.model_refcounts # {}
    /\ Leased(file) # {}
    /\ file.last_janitor_run > StartTime
    /\ State_to_dict(file).active_tokens # file.active_tokens

\* C29: in enter, the proxy and registry calls are over before the state file
\* is read: the step that starts the proxy or ensures the models neither reads
\* nor writes the file, the read takes the file as it is after that step, and
\* neither the read nor the write that follows it touches the proxy or the
\* registry.
C29_EnterStep ==
    \A p \in Procs :
       /\ (pc[p] = "idle" /\ pc'[p] = "enter_load") =>
             /\ file' = file
             /\ local'[p].st = EmptyState
       /\ (pc[p] = "enter_load" /\ pc'[p] = "enter_save") =>
             /\ registry' = registry
             /\ proxy_running' = proxy_running
             /\ file' = file
             /\ local'[p].st = enter_update(file, local[p].token, local[p].profile,
                                            local[p].directory, local[p].model_names, now)
       /\ (pc[p] = "enter_save" /\ pc'[p] = "idle") =>
             /\ registry' = registry
             /\ proxy_running' = proxy_running
             /\ file' = local[p].st

C29_ProxyBeforeState == [][C29_EnterStep]_vars

C29_Witness ==
    /\ last_cmd.op = "enter_load"
    /\ pc["p1"] = "enter_save"
    /\ pc["p2"] = "enter_load"
    /\ DOMAIN file.active_tokens = {"t2"}
    /\ DOMAIN local["p1"].st.active_tokens = {"t1", "t2"}
    /\ proxy_running
    /\ registry # Range(local["p1"].model_names)

\* The first file of the search order that holds, for the name of the last
\* load_profile call, an entry outside the set skipped; 0 if there is none.
FirstHolding(skipped) ==
    LET name == last_cmd.profile
        holding == {i \in DOMAIN SearchOrder :
                       LET f == profile_files[SearchOrder[i]] IN
                       /\ f.exists
                       /\ name \in DOMAIN f.data
                       /\ f.data[name] \notin skipped}
    IN IF holding = {} THEN 0 ELSE CHOOSE i \in holding : \A j \in holding : i <= j

LoadedIsFirst(skipped) ==
    last_cmd.op = "load_profile" =>
        LET i == FirstHolding(skipped) IN
        IF i = 0
        THEN ~loaded.found
        ELSE /\ loaded.found
             /\ loaded.source_path = SearchOrder[i]
             /\ loaded.entry = profile_files[SearchOrder[i]].data[last_cmd.profile]

ModelNullOrFalse ==
    {entry \in Entries : entry.has_model /\ entry.model \in {"null", "false"}}

EmptyOrModelNullOrFalse == {entry \in Entries : ~entry.truthy} \cup ModelNullOrFalse

\* C26 (as amended): load_profile returns the entry of the first file, in the
\* order user override, user, built-in override, built-in, whose entry for the
\* name is neither empty nor has model null or false; such entries are passed
\* over, and None is returned exactly when no file holds another entry.
C26_FirstEnabledEntry == LoadedIsFirst(EmptyOrModelNullOrFalse)

\* C26 (as stated): only an entry with model null or false is passed over.
C26_FirstEntryNotModelNull == LoadedIsFirst(ModelNullOrFalse)

C26_Witness ==
    /\ last_cmd.op = "load_profile"
    /\ last_cmd.profile = "A"
    /\ loaded.found
    /\ loaded.source_path = "builtin_override"
    /\ profile_files["user_override"].data = [n \in {"A"} |-> Entry(TRUE, TRUE, "null")]
    /\ profile_files["user"].data = [n \in {"A", "B"} |->
                                       IF n = "A" THEN Entry(TRUE, TRUE, "false")
                                       ELSE PlainEntry]
    /\ "A" \in DOMAIN profile_files["builtin"].data

\* The hooks registered for the event of the last execute call
ExecutedHooks == hook_chain[executed.given.event]

\* No context of the last execute call had stop_chain set
NeverStopped ==
    /\ ~executed.given.stop_chain
    /\ \A i \in DOMAIN executed.calls : ~executed.calls[i].result.stop_chain

C23_FailingHookIsolated ==
    last_cmd.op = "execute" =>
        /\ ~executed.raised
        /\ \A i \in DOMAIN executed.calls :
              (executed.calls[i].raised /\ i < Len(ExecutedHooks)) =>
                 /\ Len(executed.calls) > i
                 /\ executed.calls[i + 1].received = executed.calls[i].received

\* C24: once a hook returns a context with stop_chain set, no later hook is
\* called, and execute returns that context, stop_chain still set.
C24_StopChainStops ==
    last_cmd.op = "execute" =>
        \A i \in DOMAIN executed.calls :
           (~executed.calls[i].raised /\ executed.calls[i].result.stop_chain) =>
              /\ Len(executed.calls) = i
              /\ executed.returned = executed.calls[i].result
              /\ executed.returned.stop_chain

C24_Witness ==
    /\ last_cmd.op = "execute"
    /\ Len(ExecutedHooks) = 3
    /\ Len(executed.calls) = 2
    /\ executed.calls[1].raised
    /\ ExecutedHooks[2].hook.body = "stop"
    /\ ExecutedHooks[3].hook.body = "mark"
    /\ executed.returned.stop_chain
    /\ executed.returned.metadata.reached = {}

\* The entries of a hooks file that are to be registered under an event:
\* enabled, importable, in a list under that event's name
EntriesFor(config, event) ==
    {<<i, j>> \in (1..MaxItems) \X (1..MaxLen) :
        /\ config.parsed
        /\ i \in DOMAIN config.hooks
        /\ config.hooks[i].event_name = event
        /\ config.hooks[i].value.is_list
        /\ j \in DOMAIN config.hooks[i].value.hook_list
        /\ config.hooks[i].value.hook_list[j].enabled
        /\ config.hooks[i].value.hook_list[j].importable}

\* C25: load_hooks_from_config returns the number of hooks it registered on
\* the global chain; every enabled entry under a known event whose function
\* can be imported is registered once, after the hooks that event already
\* had; disabled entries, entries under unknown events, entries that cannot
\* be loaded and a file that cannot be parsed register nothing and count 0.
C25_LoadStep ==
    last_cmd'.op = "load_hooks" =>
        /\ load_result'.count = ChainSize(hook_chain') - ChainSize(hook_chain)
        /\ \A event \in HookEvent :
              /\ Len(hook_chain'[event]) =
                     Len(hook_chain[event])
                        + Cardinality(EntriesFor(load_result'.config, event))
              /\ SubSeq(hook_chain'[event], 1, Len(hook_chain[event])) = hook_chain[event]

C25_CountsWhatItRegisters == [][C25_LoadStep]_vars

C25_Witness ==
    /\ last_cmd.op = "load_hooks"
    /\ load_result.count = 1
    /\ ChainSize(hook_chain) = 3
    /\ Len(load_result.config.hooks) = 2
    /\ load_result.config.hooks[1].event_name = "pre_request"
    /\ ~load_result.config.hooks[1].value.is_list
    /\ load_result.config.hooks[2].event_name = "post_response"
    /\ load_result.config.hooks[2].value.hook_list =
           <<HookDef(FALSE, TRUE, FALSE), HookDef(TRUE, TRUE, TRUE)>>
    /\ Len(hook_chain["pre_request"]) = 2

\* C31: a sweep changes nothing of the state but model_leases and
\* last_janitor_run; enter and leave leave last_janitor_run alone; none of
\* enter, leave and janitor changes proxy_pid; status writes nothing.
C31_FrameStep ==
    /\ last_cmd'.op = "janitor" =>
          /\ file'.active_tokens = file.active_tokens
          /\ file'.model_refcounts = file.model_refcounts
          /\ file'.proxy_pid = file.proxy_pid
    /\ last_cmd'.op \in {"enter", "leave"} =>
          /\ file'.last_janitor_run = file.last_janitor_run
          /\ file'.proxy_pid = file.proxy_pid
    /\ last_cmd'.op = "status" =>
          /\ file' = file
          /\ ~last_cmd'.wrote

C31_CommandsKeepToTheirPart == [][C31_FrameStep]_vars

C31_Witness ==
    /\ last_cmd.op = "janitor"
    /\ last_cmd.wrote
    /\ delete_calls # {}
    /\ file.proxy_pid = OldVersionPid
    /\ file.last_janitor_run = now
    /\ DOMAIN file.active_tokens # {}
    /\ DOMAIN file.model_refcounts # {}
    /\ Leased(file) = {}

\* The number of requests a health_check call makes at most; 0 for no limit
RequestLimit(h) ==
    IF ~h.wait_for_recovery THEN 1
    ELSE IF h.max_retries > 0 THEN h.max_retries + 1
    ELSE 0

C32_RequestsBounded ==
    LET limit == RequestLimit(health) IN
    /\ limit > 0 => health.requests <= limit
    /\ health.pc = "done" =>
          /\ health.requests >= 1
          /\ ~health.wait_for_recovery => health.requests = 1
          /\ health.result = health.healthy
    /\ (health.pc = "loop" /\ health.requests > HEALTH_CHECK_RETRIES + 1) =>
          (health.wait_for_recovery /\ health.max_retries = 0)

\* C32: health_check without wait_for_recovery makes exactly one request and
\* returns; with wait_for_recovery and max_retries = N > 0 it returns after at
\* most N + 1 requests, False if none was answered 200; only with
\* max_retries = 0 does it go on without end; the call ensure_models makes
\* for enter, with N = 30, returns whatever the proxy answers.
C32_HealthCheckReturns ==
    /\ []C32_RequestsBounded
    /\ []((health.pc = "loop" /\ RequestLimit(health) > 0) => <>(health.pc = "done"))

C32_Witness ==
    /\ last_cmd.op = "ensure_models"
    /\ health.pc = "done"
    /\ health.requests = HEALTH_CHECK_RETRIES + 1
    /\ ~health.result

\* The model set of the profile resolved last: the names referenced by a
\* tier, the extended list or the always-include list that have a definition
C33_ModelSet == {m \in Range(last_cmd'.models) : m # "" /\ m \in last_cmd'.defined}

\* C33: one enter raises the refcount of each model of the profile's model
\* set by exactly one, however often the name is referenced, and no other
\* refcount; names without a definition are not counted.
C33_ResolveStep ==
    last_cmd'.op = "resolve_increment" =>
        \A m \in DOMAIN file.model_refcounts \cup DOMAIN file'.model_refcounts
                 \cup Range(last_cmd'.models) :
            Refcount(file', m) = Refcount(file, m) + (IF m \in C33_ModelSet THEN 1 ELSE 0)

C33_EachModelOnce == [][C33_ResolveStep]_vars

C33_Witness ==
    /\ last_cmd.op = "resolve_increment"
    /\ last_cmd.models = <<"m1", "m1", "ultra", "m1", "fast", "ultra", "fast", "cheap">>
    /\ last_cmd.defined = {"m1", "fast", "cheap"}
    /\ file.model_refcounts = [m \in {"m1", "fast", "cheap"} |-> 1]

\* C34: an enter by a token that was not active, followed by the leave of
\* that token while the profile resolves to the same models, gives back the
\* model_refcounts and the active_tokens held before the enter, whatever other
\* tokens are active and whenever the leave runs.
C34_EnterLeaveStep ==
    /\ (/\ last_cmd'.op = "enter"
        /\ last_cmd'.wrote
        /\ last_cmd'.token \notin DOMAIN file.active_tokens) =>
          \A t \in {u \in TimePoints : u >= now} :
             LET left == leave_update(file', last_cmd'.token, t) IN
             /\ left.model_refcounts = file.model_refcounts
             /\ left.active_tokens = file.active_tokens
    /\ (last_cmd'.op = "leave" /\ last_cmd'.wrote) =>
          file' = leave_update(file, last_cmd'.token, now)

C34_EnterThenLeaveRestores == [][C34_EnterLeaveStep]_vars

C34_Witness ==
    /\ last_cmd.op = "leave"
    /\ last_cmd.wrote
    /\ last_cmd.token = "t1"
    /\ last_cmd.profile = "A"
    /\ DOMAIN file.active_tokens = {"t2"}
    /\ file.active_tokens["t2"].profile = "B"
    /\ file.model_refcounts = [m \in {"m2"} |-> 1]
    /\ file.model_leases = [m \in {"m1"} |-> now + LeaseDelay]

\* The lease of m has expired, m is not counted, and the registry answers
ExpiredUncounted(m) ==
    /\ m \in Leased(file)
    /\ now >= file.model_leases[m]
    /\ Refcount(file, m) = 0
    /\ proxy_running

\* C35: when sweeps keep being run after a lease has expired and the
\* registry's delete succeeds in the end, the lease is removed from the
\* persisted state, and the model is deleted from the registry unless it has
\* been entered again meanwhile.
C35_ExpiredLeaseIsSwept ==
    \A m \in Models :
        ExpiredUncounted(m) ~>
            (m \notin Leased(file) /\ (m \notin registry \/ Refcount(file, m) > 0))

C35_Witness ==
    /\ last_cmd.op = "janitor"
    /\ \E call \in delete_calls : call.model = "m1" /\ call.ok
    /\ \E call \in delete_calls : call.model = "m2" /\ ~call.ok
    /\ "m1" \notin Leased(file)
    /\ "m1" \notin registry
    /\ Refcount(file, "m1") = 0
    /\ "m2" \in Leased(file)

\* C36: with commands run one at a time, the proxy running from the first
\* enter on and every registry call succeeding, every model with a nonzero
\* refcount in the persisted state is registered in the registry.
C36_CountedModelsRegistered ==
    \A m \in Models : Refcount(file, m) > 0 => (proxy_running /\ m \in registry)

C36_Witness ==
    /\ last_cmd.op = "janitor"
    /\ \E call \in delete_calls : call.model = "m1" /\ call.ok
    /\ "m1" \notin registry
    /\ Refcount(file, "m2") > 0
    /\ "m2" \in registry

\* C37: execute returns a HookContext and does not raise, whatever the
\* registered hooks do, a hook returning None with further hooks after it
\* included.
C37_ExecuteReturnsContext ==
    last_cmd.op = "execute" =>
        /\ ~executed.raised
        /\ executed.returned # NoneContext

====
